---- MODULE Spec2Model ----
(***************************************************************************)
(* A model of the go-guacamole REST client: the session fields of Client,  *)
(* the request pipeline (Client.do and its verb helpers), the attribute    *)
(* map codec (NullableStringMap) and the JSON Patch builders.              *)
(*                                                                         *)
(* JSON text is modelled by its value: a record tagged with the JSON kind. *)
(* Go values keep what JSON cannot see of them: a map or a slice is a      *)
(* record that says whether it is nil.                                     *)
(***************************************************************************)
EXTENDS Integers, Sequences, FiniteSets, TLC

VARIABLES
    codecOp,      \* the codec operation applied last ("idle" before any)
    codecIn,      \* its input
    codecOut,     \* its output
    patchFn,      \* the patch builder called last ("idle" before any)
    patchArgs,    \* its arguments
    patchOut,     \* the PatchOperation it returned
    baseURL,      \* Client.baseURL
    authToken,    \* Client.authToken
    dataSource,   \* Client.dataSource
    called,       \* the public method that has just returned ("none" between calls)
    callArgs,     \* its arguments
    request,      \* the HTTP request that call built, NoRequest if none
    wire,         \* the requests that call handed to the transport, in order
    response,     \* what the transport answered to it
    err,          \* the error the call returned: a chain, <<>> for nil
    lastLogin,    \* the body answered to the last Authenticate that returned nil
    prevLogin,    \* the body answered to the one before it
    predBase,     \* an error as a method returned it (<<>> for nil)
    predErr,      \* that error after the caller has wrapped it some times
    predNotFound, \* IsNotFound(predErr)
    predDenied,   \* IsPermissionDenied(predErr)
    pathDs,       \* the data source of the client dataPath was last called on
    pathSegs,     \* the segments it was called with
    pathOut,      \* the path it returned
    pathPrev,     \* data source, segments and path of the call before that one
    pc,           \* where a call that takes time is: "idle", "inflight", "returned"
    ctxDone,      \* whether the context of that call has been cancelled
    pending,      \* what that call does once Do returns: for each outcome of
                  \* Do, the client afterwards and the error returned
    authPc,       \* where an Authenticate that runs beside a resource call is:
                  \* "idle", "waiting" for the response, "storing" the session
    auth,         \* the AuthResponse it has decoded
    assigned,     \* the fields of the client it has assigned so far
    resPc,        \* where that resource call is: "idle", "path" once dataPath
                  \* has returned, "sent" once do has built the request
    overlap       \* whether the Authenticate ran while the resource call was
                  \* between its call of dataPath and its request

codecVars == <<codecOp, codecIn, codecOut>>

patchVars == <<patchFn, patchArgs, patchOut>>

sessionVars == <<baseURL, authToken, dataSource>>

callVars == <<called, callArgs, request, wire, response, err>>

clientVars == <<baseURL, authToken, dataSource, called, callArgs, request, wire,
                response, err, lastLogin, prevLogin>>

predVars == <<predBase, predErr, predNotFound, predDenied>>

pathVars == <<pathDs, pathSegs, pathOut, pathPrev>>

flightVars == <<pc, ctxDone, pending>>

raceVars == <<authPc, auth, assigned, resPc, overlap>>

vars == <<codecOp, codecIn, codecOut, patchFn, patchArgs, patchOut,
          baseURL, authToken, dataSource, called, callArgs, request, wire,
          response, err, lastLogin, prevLogin, predBase, predErr, predNotFound, predDenied,
          pathDs, pathSegs, pathOut, pathPrev, pc, ctxDone, pending,
          authPc, auth, assigned, resPc, overlap>>

(***************************************************************************)
(* JSON values.                                                            *)
(***************************************************************************)
JNull == [t |-> "null"]

JString(s) == [t |-> "string", s |-> s]

JNumber(n) == [t |-> "number", n |-> n]

JBool(b) == [t |-> "bool", b |-> b]

JArray(items) == [t |-> "array", items |-> items]

JObject(members) == [t |-> "object", members |-> members]

EmptyObject == JObject(<<>>)

(***************************************************************************)
(* Strings the code looks inside (path segments, the data source, paths)   *)
(* are sequences of one-character strings; opaque strings (tokens,         *)
(* attribute values, permission names) are TLA+ strings.                   *)
(***************************************************************************)
Letters ==
    {"a", "b", "c", "d", "e", "f", "g", "h", "i", "j", "k", "l", "m", "n", "o",
     "p", "q", "r", "s", "t", "u", "v", "w", "x", "y", "z", "A", "B", "C", "D",
     "E", "F", "G", "H", "I", "J", "K", "L", "M", "N", "O", "P", "Q", "R", "S",
     "T", "U", "V", "W", "X", "Y", "Z"}

Digits == {"0", "1", "2", "3", "4", "5", "6", "7", "8", "9"}

\* the bytes that are escaped in the model's alphabet, with their two hex digits
HexOf ==
    [c \in {" ", "%", "/", ";", ",", "?"} |->
        CASE c = " " -> <<"2", "0">>
          [] c = "%" -> <<"2", "5">>
          [] c = "/" -> <<"2", "F">>
          [] c = ";" -> <<"3", "B">>
          [] c = "," -> <<"2", "C">>
          [] c = "?" -> <<"3", "F">>]

\* net/url shouldEscape(c, encodePathSegment)
shouldEscape(c) ==
    IF c \in Letters \cup Digits
    THEN FALSE
    ELSE IF c \in {"-", "_", ".", "~"}
    THEN FALSE
    ELSE IF c \in {"$", "&", "+", ",", "/", ":", ";", "=", "?", "@"}
    THEN c \in {"/", ";", ",", "?"}
    ELSE TRUE

\* url.PathEscape
RECURSIVE PathEscape(_)
PathEscape(str) ==
    IF str = <<>>
    THEN <<>>
    ELSE (IF shouldEscape(Head(str))
          THEN <<"%">> \o HexOf[Head(str)]
          ELSE <<Head(str)>>) \o PathEscape(Tail(str))

\* the elements of a path that path.Clean keeps, for elements without "/": an
\* empty element and "." are dropped, ".." removes the element before it
RECURSIVE CleanElements(_, _)
CleanElements(kept, rest) ==
    IF rest = <<>>
    THEN kept
    ELSE LET e == Head(rest)
         IN  IF e = <<>> \/ e = <<".">>
             THEN CleanElements(kept, Tail(rest))
             ELSE IF e = <<".", ".">> /\ kept # <<>> /\ kept[Len(kept)] # <<".", ".">>
             THEN CleanElements(SubSeq(kept, 1, Len(kept) - 1), Tail(rest))
             ELSE CleanElements(Append(kept, e), Tail(rest))

\* elements joined by "/"
RECURSIVE JoinSlash(_)
JoinSlash(elems) ==
    IF elems = <<>>
    THEN <<>>
    ELSE IF Len(elems) = 1
    THEN elems[1]
    ELSE elems[1] \o <<"/">> \o JoinSlash(Tail(elems))

\* path.Join of elements that hold no "/" (PathEscape leaves none): "" when
\* every element is empty, else the cleaned path, "." when nothing is left
PathJoin(elems) ==
    IF \A i \in DOMAIN elems : elems[i] = <<>>
    THEN <<>>
    ELSE LET kept == CleanElements(<<>>, elems)
         IN  IF kept = <<>> THEN <<".">> ELSE JoinSlash(kept)

ApiSessionData == <<"/", "a", "p", "i", "/", "s", "e", "s", "s", "i", "o", "n", "/", "d", "a", "t", "a", "/">>

ApiSession == <<"/", "a", "p", "i", "/", "s", "e", "s", "s", "i", "o", "n">>

ApiTokens == <<"/", "a", "p", "i", "/", "t", "o", "k", "e", "n", "s">>

\* Client.dataPath, on a client whose data source is ds
dataPath(ds, segments) ==
    ApiSessionData \o
        PathJoin(<<PathEscape(ds)>> \o
                 [i \in DOMAIN segments |-> PathEscape(segments[i])])

\* the text of a sequence of characters
RECURSIVE Text(_)
Text(str) == IF str = <<>> THEN "" ELSE Head(str) \o Text(Tail(str))

(***************************************************************************)
(* Go maps: the nil map and the empty map are different values.            *)
(***************************************************************************)
NilMap == [isNil |-> TRUE, kv |-> <<>>]

MakeMap(kv) == [isNil |-> FALSE, kv |-> kv]

\* m[k] of Go: the zero value "" when k is not a key of m (also for a nil map)
Lookup(m, k) == IF k \in DOMAIN m.kv THEN m.kv[k] ELSE ""

\* len(m)
MapLen(m) == Cardinality(DOMAIN m.kv)

\* json.Marshal of a map[string]string: null for the nil map, else an object
GoMarshalStringMap(m) ==
    IF m.isNil
    THEN JNull
    ELSE JObject([k \in DOMAIN m.kv |-> JString(m.kv[k])])

\* json.Unmarshal of data into a nil map[string]*string: [err, isNil, ptr], ptr[k]
\* is the *string of key k, [isNil |-> TRUE] for a JSON null
GoUnmarshalPtrMap(data) ==
    IF data.t = "null"
    THEN [err |-> FALSE, isNil |-> TRUE, ptr |-> <<>>]
    ELSE IF data.t # "object"
    THEN [err |-> TRUE, isNil |-> TRUE, ptr |-> <<>>]
    ELSE [err |-> \E k \in DOMAIN data.members :
                      data.members[k].t \notin {"null", "string"},
          isNil |-> FALSE,
          ptr |-> [k \in {x \in DOMAIN data.members :
                             data.members[x].t \in {"null", "string"}} |->
                     IF data.members[k].t = "null"
                     THEN [isNil |-> TRUE, v |-> ""]
                     ELSE [isNil |-> FALSE, v |-> data.members[k].s]]]

(***************************************************************************)
(* NullableStringMap.                                                      *)
(***************************************************************************)
\* UnmarshalJSON with the copy loop left out: the map is made and stays empty
UnmarshalJSONNoCopy(m, data) ==
    LET raw == GoUnmarshalPtrMap(data)
    IN  IF raw.err
        THEN [err |-> TRUE, m |-> m]
        ELSE [err |-> FALSE, m |-> MakeMap(<<>>)]

\* UnmarshalJSON on receiver m: [err, m], m the receiver after the call
UnmarshalJSON(m, data) ==
    LET raw == GoUnmarshalPtrMap(data)
    IN  IF raw.err
        THEN [err |-> TRUE, m |-> m]
        ELSE [err |-> FALSE,
              m |-> MakeMap([k \in {x \in DOMAIN raw.ptr : ~raw.ptr[x].isNil} |->
                               raw.ptr[k].v])]

\* MarshalJSON without its nil case
MarshalJSONNoNilCase(m) == GoMarshalStringMap(m)

MarshalJSON(m) ==
    IF m.isNil
    THEN EmptyObject
    ELSE GoMarshalStringMap(m)

(***************************************************************************)
(* The record types with an attribute map, as encoding/json encodes them:  *)
(* a field tagged omitempty is left out when it is "", 0, false or a map   *)
(* or slice of length 0; every other field is always written.              *)
(***************************************************************************)
Field(key, val) == [key |-> key, val |-> val, omit |-> FALSE]

OmitEmpty(key, val, empty) == [key |-> key, val |-> val, omit |-> empty]

\* the JSON object of a struct, from its fields in declaration order
StructObject(fs) ==
    LET kept == {i \in DOMAIN fs : ~fs[i].omit}
    IN  JObject([k \in {fs[i].key : i \in kept} |->
                   fs[CHOOSE i \in kept : fs[i].key = k].val])

EncodeConnection(c) ==
    StructObject(<<
        OmitEmpty("identifier", JString(c.Identifier), c.Identifier = ""),
        Field("name", JString(c.Name)),
        OmitEmpty("parentIdentifier", JString(c.ParentIdentifier),
                  c.ParentIdentifier = ""),
        Field("protocol", JString(c.Protocol)),
        OmitEmpty("parameters", GoMarshalStringMap(c.Parameters),
                  MapLen(c.Parameters) = 0),
        Field("attributes", MarshalJSON(c.Attributes)),
        OmitEmpty("activeConnections", JNumber(c.ActiveConnections),
                  c.ActiveConnections = 0) >>)

\* ChildConnections and ChildConnectionGroups are sequences: a nil and an empty
\* slice are both left out by omitempty
RECURSIVE EncodeConnectionGroup(_)
EncodeConnectionGroup(g) ==
    StructObject(<<
        OmitEmpty("identifier", JString(g.Identifier), g.Identifier = ""),
        Field("name", JString(g.Name)),
        OmitEmpty("parentIdentifier", JString(g.ParentIdentifier),
                  g.ParentIdentifier = ""),
        Field("type", JString(g.Type)),
        Field("attributes", MarshalJSON(g.Attributes)),
        OmitEmpty("activeConnections", JNumber(g.ActiveConnections),
                  g.ActiveConnections = 0),
        OmitEmpty("childConnections",
                  JArray([i \in DOMAIN g.ChildConnections |->
                            EncodeConnection(g.ChildConnections[i])]),
                  Len(g.ChildConnections) = 0),
        OmitEmpty("childConnectionGroups",
                  JArray([i \in DOMAIN g.ChildConnectionGroups |->
                            EncodeConnectionGroup(g.ChildConnectionGroups[i])]),
                  Len(g.ChildConnectionGroups) = 0) >>)

EncodeUser(u) ==
    StructObject(<<
        Field("username", JString(u.Username)),
        OmitEmpty("password", JString(u.Password), u.Password = ""),
        OmitEmpty("disabled", JBool(u.Disabled), ~u.Disabled),
        Field("attributes", MarshalJSON(u.Attributes)),
        OmitEmpty("lastActive", JNumber(u.LastActive), u.LastActive = 0) >>)

EncodeUserGroup(g) ==
    StructObject(<<
        Field("identifier", JString(g.Identifier)),
        OmitEmpty("disabled", JBool(g.Disabled), ~g.Disabled),
        Field("attributes", MarshalJSON(g.Attributes)) >>)

EncodeSharingProfile(p) ==
    StructObject(<<
        OmitEmpty("identifier", JString(p.Identifier), p.Identifier = ""),
        Field("name", JString(p.Name)),
        Field("primaryConnectionIdentifier",
              JString(p.PrimaryConnectionIdentifier)),
        OmitEmpty("parameters", GoMarshalStringMap(p.Parameters),
                  MapLen(p.Parameters) = 0),
        Field("attributes", MarshalJSON(p.Attributes)) >>)

EncodeSelf(s) ==
    StructObject(<<
        Field("username", JString(s.Username)),
        Field("disabled", JBool(s.Disabled)),
        Field("lastActive", JNumber(s.LastActive)),
        OmitEmpty("attributes", MarshalJSON(s.Attributes),
                  MapLen(s.Attributes) = 0) >>)

(***************************************************************************)
(* PatchOperation and the patch helpers.                                   *)
(***************************************************************************)
PatchOperation(op, path, value) == [Op |-> op, Path |-> path, Value |-> value]

AddConnectionPermission(connectionID, permission) ==
    PatchOperation("add", "/connectionPermissions/" \o connectionID, permission)

RemoveConnectionPermission(connectionID, permission) ==
    PatchOperation("remove", "/connectionPermissions/" \o connectionID, permission)

AddConnectionGroupPermission(groupID, permission) ==
    PatchOperation("add", "/connectionGroupPermissions/" \o groupID, permission)

RemoveConnectionGroupPermission(groupID, permission) ==
    PatchOperation("remove", "/connectionGroupPermissions/" \o groupID, permission)

AddSharingProfilePermission(profileID, permission) ==
    PatchOperation("add", "/sharingProfilePermissions/" \o profileID, permission)

RemoveSharingProfilePermission(profileID, permission) ==
    PatchOperation("remove", "/sharingProfilePermissions/" \o profileID, permission)

AddUserPermission(targetUsername, permission) ==
    PatchOperation("add", "/userPermissions/" \o targetUsername, permission)

RemoveUserPermission(targetUsername, permission) ==
    PatchOperation("remove", "/userPermissions/" \o targetUsername, permission)

AddUserGroupPermission(groupID, permission) ==
    PatchOperation("add", "/userGroupPermissions/" \o groupID, permission)

\* RemoveUserGroupPermission with the path of RemoveUserPermission
RemoveUserGroupPermissionWrongPath(groupID, permission) ==
    PatchOperation("remove", "/userPermissions/" \o groupID, permission)

RemoveUserGroupPermission(groupID, permission) ==
    PatchOperation("remove", "/userGroupPermissions/" \o groupID, permission)

AddSystemPermission(permission) ==
    PatchOperation("add", "/systemPermissions", permission)

RemoveSystemPermission(permission) ==
    PatchOperation("remove", "/systemPermissions", permission)

AddGroupMembership(identifier) ==
    PatchOperation("add", "/", identifier)

RemoveGroupMembership(identifier) ==
    PatchOperation("remove", "/", identifier)

(***************************************************************************)
(* HTTP: requests, responses, errors.                                      *)
(***************************************************************************)
StatusOK == 200

NoRequest == [sent |-> FALSE]

NoResponse == [kind |-> "none"]

\* no Authenticate call has returned nil
NoLogin == [t |-> "none"]

Request(base, method, path, header, body) ==
    [sent |-> TRUE, base |-> base, method |-> method, path |-> path,
     header |-> header, body |-> body]

\* the body of a request sent without one
NoBody == [t |-> "none"]

\* the body of the token request: url.Values encoded
FormBody(username, password) ==
    [t |-> "form", username |-> username, password |-> password]

\* a response body: its text and the JSON value the text parses to
InvalidJSON == [t |-> "invalid"]

Body(raw, json) == [raw |-> raw, json |-> json]

HTTPResponse(status, body) == [kind |-> "http", status |-> status, body |-> body]

\* httpClient.Do returning an error: refused, timed out, context cancelled
TransportFailure(cause) == [kind |-> "transport", cause |-> cause]

\* error chains, outermost first; <<>> is nil
Wrap(format, fmtArgs, cause) ==
    <<[k |-> "wrap", format |-> format, args |-> fmtArgs]>> \o cause

TransportError(cause) == <<[k |-> "transport", cause |-> cause]>>

DecodeError(raw) == <<[k |-> "json", input |-> raw]>>

\* http.StatusText, for the statuses of the model
StatusText(status) ==
    CASE status = 200 -> "OK"
      [] status = 400 -> "Bad Request"
      [] status = 201 -> "Created"
      [] status = 204 -> "No Content"
      [] status = 403 -> "Forbidden"
      [] status = 404 -> "Not Found"
      [] status = 500 -> "Internal Server Error"
      [] status = 503 -> "Service Unavailable"

\* json.Unmarshal into an APIError whose HTTPStatus field is not tagged "-":
\* a number member of that name is stored into it
UnmarshalAPIErrorStatusField(json, apiErr) ==
    IF json.t = "invalid"
    THEN [err |-> TRUE, v |-> apiErr]
    ELSE IF json.t = "null"
    THEN [err |-> FALSE, v |-> apiErr]
    ELSE IF json.t # "object"
    THEN [err |-> TRUE, v |-> apiErr]
    ELSE LET has(key, kinds) ==
                 key \in DOMAIN json.members /\ json.members[key].t \in kinds
             mistyped(key) ==
                 key \in DOMAIN json.members
                 /\ json.members[key].t \notin {"string", "null"}
         IN  [err |-> mistyped("message") \/ mistyped("type"),
              v |-> [apiErr EXCEPT
                       !.Message = IF has("message", {"string"})
                                   THEN json.members["message"].s
                                   ELSE @,
                       !.Type = IF has("type", {"string"})
                                THEN json.members["type"].s
                                ELSE @,
                       !.HTTPStatus = IF has("HTTPStatus", {"number"})
                                      THEN json.members["HTTPStatus"].n
                                      ELSE @]]

\* json.Unmarshal(body, apiErr) into an APIError: a member that is a string is
\* stored, a null or absent one leaves the field, any other type is an error
\* after which the other members are still stored; HTTPStatus is tagged "-"
UnmarshalAPIError(json, apiErr) ==
    IF json.t = "invalid"
    THEN [err |-> TRUE, v |-> apiErr]
    ELSE IF json.t = "null"
    THEN [err |-> FALSE, v |-> apiErr]
    ELSE IF json.t # "object"
    THEN [err |-> TRUE, v |-> apiErr]
    ELSE LET has(key, kinds) ==
                 key \in DOMAIN json.members /\ json.members[key].t \in kinds
             mistyped(key) ==
                 key \in DOMAIN json.members
                 /\ json.members[key].t \notin {"string", "null"}
         IN  [err |-> mistyped("message") \/ mistyped("type"),
              v |-> [apiErr EXCEPT
                       !.Message = IF has("message", {"string"})
                                   THEN json.members["message"].s
                                   ELSE @,
                       !.Type = IF has("type", {"string"})
                                THEN json.members["type"].s
                                ELSE @]]

\* parseError without the case of the empty body
parseErrorNoEmptyCase(resp) ==
    LET apiErr == [k |-> "api", HTTPStatus |-> resp.status, Type |-> "",
                   Message |-> ""]
        d == UnmarshalAPIError(resp.body.json, apiErr)
    IN  IF d.err
        THEN <<[d.v EXCEPT !.Message = resp.body.raw]>>
        ELSE <<d.v>>

\* Client.parseError
parseError(resp) ==
    LET apiErr == [k |-> "api", HTTPStatus |-> resp.status, Type |-> "",
                   Message |-> ""]
    IN  IF resp.body.raw = ""
        THEN <<[apiErr EXCEPT !.Message = StatusText(resp.status)]>>
        ELSE LET d == UnmarshalAPIError(resp.body.json, apiErr)
             IN  IF d.err
                 THEN <<[d.v EXCEPT !.Message = resp.body.raw]>>
                 ELSE <<d.v>>

(***************************************************************************)
(* Error classification: errors.go.                                        *)
(***************************************************************************)
ErrTypeNotFound == "NOT_FOUND"

ErrTypePermissionDenied == "PERMISSION_DENIED"

\* errors.As(err, &apiErr): the first *APIError met when unwrapping err
RECURSIVE As(_)
As(e) ==
    IF e = <<>>
    THEN [found |-> FALSE]
    ELSE IF Head(e).k = "api"
    THEN [found |-> TRUE, apiErr |-> Head(e)]
    ELSE As(Tail(e))

\* IsNotFound with a type assertion on err itself in the place of errors.As
IsNotFoundNoUnwrap(e) ==
    e # <<>> /\ Head(e).k = "api" /\ Head(e).Type = ErrTypeNotFound

\* the package-level IsNotFound
IsNotFound(e) ==
    LET a == As(e)
    IN  IF a.found THEN a.apiErr.Type = ErrTypeNotFound ELSE FALSE

\* the package-level IsPermissionDenied
IsPermissionDenied(e) ==
    LET a == As(e)
    IN  IF a.found THEN a.apiErr.Type = ErrTypePermissionDenied ELSE FALSE

(***************************************************************************)
(* Request bodies: the value passed to Client.do as interface{}.  A nil    *)
(* slice in an interface is not the nil interface.                         *)
(***************************************************************************)
NilInterface == [isNil |-> TRUE]

Boxed(type, val) == [isNil |-> FALSE, type |-> type, val |-> val]

NilSlice == [isNil |-> TRUE, elems |-> <<>>]

MakeSlice(elems) == [isNil |-> FALSE, elems |-> elems]

EncodePatchOperation(o) ==
    StructObject(<<
        Field("op", JString(o.Op)),
        Field("path", JString(o.Path)),
        Field("value", JString(o.Value)) >>)

\* json.Marshal of a slice of PatchOperation: null for the nil slice
GoMarshalPatchSlice(ops) ==
    IF ops.isNil
    THEN JNull
    ELSE JArray([i \in DOMAIN ops.elems |-> EncodePatchOperation(ops.elems[i])])

\* json.Marshal(body) for the types the client passes
GoMarshal(body) ==
    CASE body.type = "[]PatchOperation" -> GoMarshalPatchSlice(body.val)
      [] body.type = "User" -> EncodeUser(body.val)
      [] body.type = "UserGroup" -> EncodeUserGroup(body.val)
      [] body.type = "Connection" -> EncodeConnection(body.val)
      [] body.type = "ConnectionGroup" -> EncodeConnectionGroup(body.val)
      [] body.type = "SharingProfile" -> EncodeSharingProfile(body.val)

(***************************************************************************)
(* The request pipeline.  c is the client, [authToken, dataSource]; resp   *)
(* is what the transport answers to the request.  Each helper returns      *)
(* [request, err].  json.Marshal cannot fail on the body types above and   *)
(* the request is always buildable from a valid base URL, so those two     *)
(* early returns of do are not reachable.                                  *)
(***************************************************************************)
\* do setting the token header without looking at the token
doHeaderAlwaysToken(c, body) ==
    [h \in (IF body.isNil THEN {} ELSE {"Content-Type"}) \cup {"Guacamole-Token"} |->
        IF h = "Content-Type" THEN "application/json" ELSE c.authToken]

\* do setting the content type of every request, with a body or without
doHeaderAlwaysContentType(c, body) ==
    [h \in {"Content-Type"} \cup
           (IF c.authToken # "" THEN {"Guacamole-Token"} ELSE {}) |->
        IF h = "Content-Type" THEN "application/json" ELSE c.authToken]

\* the headers do sets
doHeader(c, body) ==
    [h \in (IF body.isNil THEN {} ELSE {"Content-Type"}) \cup
           (IF c.authToken # "" THEN {"Guacamole-Token"} ELSE {}) |->
        IF h = "Content-Type" THEN "application/json" ELSE c.authToken]

\* do that sends the request a second time when the first attempt has failed
doRetriesOnFailure(c, method, path, body, resp) ==
    LET req == Request(c.baseURL, method, path, doHeader(c, body),
                       IF body.isNil THEN NoBody ELSE GoMarshal(body))
    IN  IF resp.kind = "transport"
        THEN [request |-> req, sent |-> <<req, req>>, ok |-> FALSE,
              err |-> Wrap("guacamole: %s %s: %w", <<method, path>>,
                           TransportError(resp.cause))]
        ELSE IF resp.status < 200 \/ resp.status >= 300
        THEN [request |-> req, sent |-> <<req, req>>, ok |-> FALSE,
              err |-> parseError(resp)]
        ELSE [request |-> req, sent |-> <<req>>, ok |-> TRUE, err |-> <<>>]

\* Client.do: [request, sent, err, ok]; sent are the requests handed to
\* httpClient.Do, ok when the response is returned to the caller
do(c, method, path, body, resp) ==
    LET req == Request(c.baseURL, method, path, doHeader(c, body),
                       IF body.isNil THEN NoBody ELSE GoMarshal(body))
    IN  IF resp.kind = "transport"
        THEN [request |-> req, sent |-> <<req>>, ok |-> FALSE,
              err |-> Wrap("guacamole: %s %s: %w", <<method, path>>,
                           TransportError(resp.cause))]
        ELSE IF resp.status < 200 \/ resp.status >= 300
        THEN [request |-> req, sent |-> <<req>>, ok |-> FALSE, err |-> parseError(resp)]
        ELSE [request |-> req, sent |-> <<req>>, ok |-> TRUE, err |-> <<>>]

\* json.NewDecoder(resp.Body).Decode(out), out a pointer to a struct or a map
\* ("object") or to a slice ("array"): the error it returns.  The bodies of the
\* model hold no member of a type its field cannot take.
decodeInto(shape, body) ==
    IF body.json.t = "invalid"
    THEN DecodeError(body.raw)
    ELSE IF body.json.t \in {"null", shape}
    THEN <<>>
    ELSE DecodeError(body.raw)

\* get that returns once do has, without reading the body
getIgnoresBody(c, path, shape, resp) ==
    LET r == do(c, "GET", path, NilInterface, resp)
    IN  [request |-> r.request, sent |-> r.sent, err |-> r.err]

get(c, path, shape, resp) ==
    LET r == do(c, "GET", path, NilInterface, resp)
    IN  [request |-> r.request, sent |-> r.sent,
         err |-> IF ~r.ok THEN r.err ELSE decodeInto(shape, resp.body)]

\* Client.post with a non-nil out
post(c, path, body, shape, resp) ==
    LET r == do(c, "POST", path, body, resp)
    IN  [request |-> r.request, sent |-> r.sent,
         err |-> IF ~r.ok THEN r.err ELSE decodeInto(shape, resp.body)]

\* put that decodes the body of the response as get does
putDecodesBody(c, path, body, resp) ==
    LET r == do(c, "PUT", path, body, resp)
    IN  [request |-> r.request, sent |-> r.sent,
         err |-> IF ~r.ok THEN r.err ELSE decodeInto("object", resp.body)]

put(c, path, body, resp) ==
    LET r == do(c, "PUT", path, body, resp)
    IN  [request |-> r.request, sent |-> r.sent, err |-> r.err]

delete(c, path, resp) ==
    LET r == do(c, "DELETE", path, NilInterface, resp)
    IN  [request |-> r.request, sent |-> r.sent, err |-> r.err]

patch(c, path, ops, resp) ==
    LET r == do(c, "PATCH", path, Boxed("[]PatchOperation", ops), resp)
    IN  [request |-> r.request, sent |-> r.sent, err |-> r.err]

\* if err := ...; err != nil { return fmt.Errorf(format, args..., err) }
Wrapped(format, fmtArgs, r) ==
    [request |-> r.request, sent |-> r.sent,
     err |-> IF r.err = <<>> THEN <<>> ELSE Wrap(format, fmtArgs, r.err)]

(***************************************************************************)
(* Authentication.                                                         *)
(***************************************************************************)
\* json.NewDecoder(resp.Body).Decode(&auth) into a zero AuthResponse
DecodeAuthResponse(body) ==
    LET json == body.json
        zero == [AuthToken |-> "", DataSource |-> <<>>]
        has(key, kinds) ==
            key \in DOMAIN json.members /\ json.members[key].t \in kinds
        mistyped(key, kinds) ==
            key \in DOMAIN json.members /\ json.members[key].t \notin kinds
    IN  IF json.t = "invalid"
        THEN [err |-> TRUE, auth |-> zero]
        ELSE IF json.t = "null"
        THEN [err |-> FALSE, auth |-> zero]
        ELSE IF json.t # "object"
        THEN [err |-> TRUE, auth |-> zero]
        ELSE [err |-> \/ mistyped("authToken", {"string", "null"})
                      \/ mistyped("username", {"string", "null"})
                      \/ mistyped("dataSource", {"string", "null"})
                      \/ mistyped("availableDataSources", {"array", "null"}),
              auth |-> [AuthToken |-> IF has("authToken", {"string"})
                                      THEN json.members["authToken"].s
                                      ELSE "",
                        DataSource |-> IF has("dataSource", {"string"})
                                       THEN json.members["dataSource"].s
                                       ELSE <<>>]]

\* Authenticate that stores the token and forgets the data source
AuthenticateTokenOnly(c, username, password, resp) ==
    LET req == Request(c.baseURL, "POST", ApiTokens,
                       [h \in {"Content-Type"} |->
                           "application/x-www-form-urlencoded"],
                       FormBody(username, password))
    IN  IF resp.kind = "transport"
        THEN [c |-> c, request |-> req, sent |-> <<req>>,
              err |-> Wrap("guacamole: auth request: %w", <<>>,
                           TransportError(resp.cause))]
        ELSE IF resp.status # StatusOK
        THEN [c |-> c, request |-> req, sent |-> <<req>>, err |-> parseError(resp)]
        ELSE LET d == DecodeAuthResponse(resp.body)
             IN  IF d.err
                 THEN [c |-> c, request |-> req, sent |-> <<req>>,
                       err |-> Wrap("guacamole: decode auth response: %w", <<>>,
                                    DecodeError(resp.body.raw))]
                 ELSE [c |-> [c EXCEPT !.authToken = d.auth.AuthToken],
                       request |-> req, sent |-> <<req>>, err |-> <<>>]

\* Authenticate that stores what it decoded before it looks for an error
AuthenticateStoresFirst(c, username, password, resp) ==
    LET req == Request(c.baseURL, "POST", ApiTokens,
                       [h \in {"Content-Type"} |->
                           "application/x-www-form-urlencoded"],
                       FormBody(username, password))
    IN  IF resp.kind = "transport"
        THEN [c |-> c, request |-> req, sent |-> <<req>>,
              err |-> Wrap("guacamole: auth request: %w", <<>>,
                           TransportError(resp.cause))]
        ELSE IF resp.status # StatusOK
        THEN [c |-> c, request |-> req, sent |-> <<req>>, err |-> parseError(resp)]
        ELSE LET d == DecodeAuthResponse(resp.body)
                 stored == [c EXCEPT !.authToken = d.auth.AuthToken,
                                     !.dataSource = d.auth.DataSource]
             IN  IF d.err
                 THEN [c |-> stored, request |-> req, sent |-> <<req>>,
                       err |-> Wrap("guacamole: decode auth response: %w", <<>>,
                                    DecodeError(resp.body.raw))]
                 ELSE [c |-> stored, request |-> req, sent |-> <<req>>, err |-> <<>>]

\* Authenticate that drops the session when the server refuses the login
AuthenticateClearsOnFailure(c, username, password, resp) ==
    LET req == Request(c.baseURL, "POST", ApiTokens,
                       [h \in {"Content-Type"} |->
                           "application/x-www-form-urlencoded"],
                       FormBody(username, password))
    IN  IF resp.kind = "transport"
        THEN [c |-> c, request |-> req, sent |-> <<req>>,
              err |-> Wrap("guacamole: auth request: %w", <<>>,
                           TransportError(resp.cause))]
        ELSE IF resp.status # StatusOK
        THEN [c |-> [c EXCEPT !.authToken = "", !.dataSource = <<>>],
              request |-> req, sent |-> <<req>>, err |-> parseError(resp)]
        ELSE LET d == DecodeAuthResponse(resp.body)
             IN  IF d.err
                 THEN [c |-> c, request |-> req, sent |-> <<req>>,
                       err |-> Wrap("guacamole: decode auth response: %w", <<>>,
                                    DecodeError(resp.body.raw))]
                 ELSE [c |-> [c EXCEPT !.authToken = d.auth.AuthToken,
                                       !.dataSource = d.auth.DataSource],
                       request |-> req, sent |-> <<req>>, err |-> <<>>]

\* Authenticate that keeps the data source of a client that has one
AuthenticateKeepsDataSource(c, username, password, resp) ==
    LET req == Request(c.baseURL, "POST", ApiTokens,
                       [h \in {"Content-Type"} |->
                           "application/x-www-form-urlencoded"],
                       FormBody(username, password))
    IN  IF resp.kind = "transport"
        THEN [c |-> c, request |-> req, sent |-> <<req>>,
              err |-> Wrap("guacamole: auth request: %w", <<>>,
                           TransportError(resp.cause))]
        ELSE IF resp.status # StatusOK
        THEN [c |-> c, request |-> req, sent |-> <<req>>, err |-> parseError(resp)]
        ELSE LET d == DecodeAuthResponse(resp.body)
             IN  IF d.err
                 THEN [c |-> c, request |-> req, sent |-> <<req>>,
                       err |-> Wrap("guacamole: decode auth response: %w", <<>>,
                                    DecodeError(resp.body.raw))]
                 ELSE [c |-> [c EXCEPT !.authToken = d.auth.AuthToken,
                                       !.dataSource = IF c.dataSource = <<>>
                                                      THEN d.auth.DataSource
                                                      ELSE c.dataSource],
                       request |-> req, sent |-> <<req>>, err |-> <<>>]

\* Client.Authenticate: [c, request, err], c the client after the call
Authenticate(c, username, password, resp) ==
    LET req == Request(c.baseURL, "POST", ApiTokens,
                       [h \in {"Content-Type"} |->
                           "application/x-www-form-urlencoded"],
                       FormBody(username, password))
    IN  IF resp.kind = "transport"
        THEN [c |-> c, request |-> req, sent |-> <<req>>,
              err |-> Wrap("guacamole: auth request: %w", <<>>,
                           TransportError(resp.cause))]
        ELSE IF resp.status # StatusOK
        THEN [c |-> c, request |-> req, sent |-> <<req>>, err |-> parseError(resp)]
        ELSE LET d == DecodeAuthResponse(resp.body)
             IN  IF d.err
                 THEN [c |-> c, request |-> req, sent |-> <<req>>,
                       err |-> Wrap("guacamole: decode auth response: %w", <<>>,
                                    DecodeError(resp.body.raw))]
                 ELSE [c |-> [c EXCEPT !.authToken = d.auth.AuthToken,
                                       !.dataSource = d.auth.DataSource],
                       request |-> req, sent |-> <<req>>, err |-> <<>>]

\* Logout that clears the session before it sends the request
LogoutClearsToken(c, resp) ==
    delete([c EXCEPT !.authToken = "", !.dataSource = <<>>], ApiSession, resp)

\* Client.Logout
Logout(c, resp) == delete(c, ApiSession, resp)

(***************************************************************************)
(* Resource methods.                                                       *)
(***************************************************************************)
SegConnections == <<"c", "o", "n", "n", "e", "c", "t", "i", "o", "n", "s">>

SegUsers == <<"u", "s", "e", "r", "s">>

SegUserGroups == <<"u", "s", "e", "r", "G", "r", "o", "u", "p", "s">>

SegConnectionGroups == <<"c", "o", "n", "n", "e", "c", "t", "i", "o", "n", "G", "r", "o", "u", "p", "s">>

SegSharingProfiles == <<"s", "h", "a", "r", "i", "n", "g", "P", "r", "o", "f", "i", "l", "e", "s">>

SegPermissions == <<"p", "e", "r", "m", "i", "s", "s", "i", "o", "n", "s">>

SegMemberUsers == <<"m", "e", "m", "b", "e", "r", "U", "s", "e", "r", "s">>

SegMemberUserGroups == <<"m", "e", "m", "b", "e", "r", "U", "s", "e", "r", "G", "r", "o", "u", "p", "s">>

ListConnections(c, resp) ==
    Wrapped("guacamole: list connections: %w", <<>>,
            get(c, dataPath(c.dataSource, <<SegConnections>>), "object", resp))

CreateUser(c, user, resp) ==
    Wrapped("guacamole: create user: %w", <<>>,
            post(c, dataPath(c.dataSource, <<SegUsers>>), Boxed("User", user),
                 "object", resp))

GetUser(c, username, resp) ==
    Wrapped("guacamole: get user %s: %w", <<username>>,
            get(c, dataPath(c.dataSource, <<SegUsers, username>>), "object", resp))

UpdateUser(c, username, user, resp) ==
    Wrapped("guacamole: update user %s: %w", <<username>>,
            put(c, dataPath(c.dataSource, <<SegUsers, username>>),
                Boxed("User", user), resp))

DeleteUser(c, username, resp) ==
    Wrapped("guacamole: delete user %s: %w", <<username>>,
            delete(c, dataPath(c.dataSource, <<SegUsers, username>>), resp))

UpdateUserPermissions(c, username, ops, resp) ==
    Wrapped("guacamole: update user permissions %s: %w", <<username>>,
            patch(c, dataPath(c.dataSource, <<SegUsers, username, SegPermissions>>),
                  ops, resp))

UpdateUserGroups(c, username, ops, resp) ==
    Wrapped("guacamole: update user groups for %s: %w", <<username>>,
            patch(c, dataPath(c.dataSource, <<SegUsers, username, SegUserGroups>>),
                  ops, resp))

UpdateUserGroupPermissions(c, id, ops, resp) ==
    Wrapped("guacamole: update user group permissions %s: %w", <<id>>,
            patch(c, dataPath(c.dataSource, <<SegUserGroups, id, SegPermissions>>),
                  ops, resp))

UpdateUserGroupMemberUsers(c, id, ops, resp) ==
    Wrapped("guacamole: update member users of group %s: %w", <<id>>,
            patch(c, dataPath(c.dataSource, <<SegUserGroups, id, SegMemberUsers>>),
                  ops, resp))

UpdateUserGroupMemberGroups(c, id, ops, resp) ==
    Wrapped("guacamole: update member groups of group %s: %w", <<id>>,
            patch(c, dataPath(c.dataSource,
                              <<SegUserGroups, id, SegMemberUserGroups>>),
                  ops, resp))

UpdateUserGroupParentGroups(c, id, ops, resp) ==
    Wrapped("guacamole: update parent groups of group %s: %w", <<id>>,
            patch(c, dataPath(c.dataSource, <<SegUserGroups, id, SegUserGroups>>),
                  ops, resp))

ListConnectionGroups(c, resp) ==
    Wrapped("guacamole: list connection groups: %w", <<>>,
            get(c, dataPath(c.dataSource, <<SegConnectionGroups>>), "object", resp))

CreateConnectionGroup(c, group, resp) ==
    Wrapped("guacamole: create connection group: %w", <<>>,
            post(c, dataPath(c.dataSource, <<SegConnectionGroups>>), Boxed("ConnectionGroup", group),
                 "object", resp))

GetConnectionGroup(c, id, resp) ==
    Wrapped("guacamole: get connection group %s: %w", <<id>>,
            get(c, dataPath(c.dataSource, <<SegConnectionGroups, id>>), "object", resp))

UpdateConnectionGroup(c, id, group, resp) ==
    Wrapped("guacamole: update connection group %s: %w", <<id>>,
            put(c, dataPath(c.dataSource, <<SegConnectionGroups, id>>),
                Boxed("ConnectionGroup", group), resp))

DeleteConnectionGroup(c, id, resp) ==
    Wrapped("guacamole: delete connection group %s: %w", <<id>>,
            delete(c, dataPath(c.dataSource, <<SegConnectionGroups, id>>), resp))

CreateConnection(c, conn, resp) ==
    Wrapped("guacamole: create connection: %w", <<>>,
            post(c, dataPath(c.dataSource, <<SegConnections>>), Boxed("Connection", conn),
                 "object", resp))

GetConnection(c, id, resp) ==
    Wrapped("guacamole: get connection %s: %w", <<id>>,
            get(c, dataPath(c.dataSource, <<SegConnections, id>>), "object", resp))

UpdateConnection(c, id, conn, resp) ==
    Wrapped("guacamole: update connection %s: %w", <<id>>,
            put(c, dataPath(c.dataSource, <<SegConnections, id>>),
                Boxed("Connection", conn), resp))

DeleteConnection(c, id, resp) ==
    Wrapped("guacamole: delete connection %s: %w", <<id>>,
            delete(c, dataPath(c.dataSource, <<SegConnections, id>>), resp))

ListSharingProfiles(c, resp) ==
    Wrapped("guacamole: list sharing profiles: %w", <<>>,
            get(c, dataPath(c.dataSource, <<SegSharingProfiles>>), "object", resp))

CreateSharingProfile(c, profile, resp) ==
    Wrapped("guacamole: create sharing profile: %w", <<>>,
            post(c, dataPath(c.dataSource, <<SegSharingProfiles>>), Boxed("SharingProfile", profile),
                 "object", resp))

GetSharingProfile(c, id, resp) ==
    Wrapped("guacamole: get sharing profile %s: %w", <<id>>,
            get(c, dataPath(c.dataSource, <<SegSharingProfiles, id>>), "object", resp))

UpdateSharingProfile(c, id, profile, resp) ==
    Wrapped("guacamole: update sharing profile %s: %w", <<id>>,
            put(c, dataPath(c.dataSource, <<SegSharingProfiles, id>>),
                Boxed("SharingProfile", profile), resp))

DeleteSharingProfile(c, id, resp) ==
    Wrapped("guacamole: delete sharing profile %s: %w", <<id>>,
            delete(c, dataPath(c.dataSource, <<SegSharingProfiles, id>>), resp))

ListUserGroups(c, resp) ==
    Wrapped("guacamole: list user groups: %w", <<>>,
            get(c, dataPath(c.dataSource, <<SegUserGroups>>), "object", resp))

CreateUserGroup(c, group, resp) ==
    Wrapped("guacamole: create user group: %w", <<>>,
            post(c, dataPath(c.dataSource, <<SegUserGroups>>), Boxed("UserGroup", group),
                 "object", resp))

GetUserGroup(c, id, resp) ==
    Wrapped("guacamole: get user group %s: %w", <<id>>,
            get(c, dataPath(c.dataSource, <<SegUserGroups, id>>), "object", resp))

UpdateUserGroup(c, id, group, resp) ==
    Wrapped("guacamole: update user group %s: %w", <<id>>,
            put(c, dataPath(c.dataSource, <<SegUserGroups, id>>),
                Boxed("UserGroup", group), resp))

DeleteUserGroup(c, id, resp) ==
    Wrapped("guacamole: delete user group %s: %w", <<id>>,
            delete(c, dataPath(c.dataSource, <<SegUserGroups, id>>), resp))

ListUsers(c, resp) ==
    Wrapped("guacamole: list users: %w", <<>>,
            get(c, dataPath(c.dataSource, <<SegUsers>>), "object", resp))

(***************************************************************************)
(* The inputs of the codec.                                                *)
(***************************************************************************)
AttrKeys == {"guac-full-name", "expired"}

AttrStrings == {"", "Alice"}

\* the Go maps a caller can hold: nil, empty, populated
AttrMaps ==
    {NilMap} \cup
    {MakeMap(kv) : kv \in UNION {[ks -> AttrStrings] : ks \in SUBSET AttrKeys}}

\* the attribute objects a server sends: values are strings or null
WireValues == {JNull} \cup {JString(s) : s \in AttrStrings}

AttrObjects ==
    {JObject(ms) : ms \in UNION {[ks -> WireValues] : ks \in SUBSET AttrKeys}}

\* what else can arrive where an attribute object is expected
OtherWire ==
    {JNull, JArray(<<>>), JString("Alice"),
     JObject([k \in {"expired"} |-> JNumber(1)])}

ParameterMaps == {NilMap, MakeMap([k \in {"hostname"} |-> "10.0.0.1"])}

Connections ==
    [Identifier : {"", "1"}, Name : {"My SSH"}, ParentIdentifier : {"", "ROOT"},
     Protocol : {"ssh"}, Parameters : ParameterMaps, Attributes : AttrMaps,
     ActiveConnections : {0, 1}]

\* a child of a connection group, as a tree response or a caller gives it
ChildConnection ==
    [Identifier |-> "5", Name |-> "jumphost", ParentIdentifier |-> "",
     Protocol |-> "ssh", Parameters |-> NilMap, Attributes |-> NilMap,
     ActiveConnections |-> 0]

ChildGroup ==
    [Identifier |-> "1", Name |-> "Servers", ParentIdentifier |-> "",
     Type |-> "ORGANIZATIONAL", Attributes |-> NilMap, ActiveConnections |-> 0,
     ChildConnections |-> <<>>, ChildConnectionGroups |-> <<>>]

ConnectionGroups ==
    [Identifier : {"", "ROOT"}, Name : {"DC East"}, ParentIdentifier : {""},
     Type : {"ORGANIZATIONAL", "BALANCING"}, Attributes : AttrMaps,
     ActiveConnections : {0}, ChildConnections : {<<>>, <<ChildConnection>>},
     ChildConnectionGroups : {<<>>, <<ChildGroup>>}]

Users ==
    [Username : {"bob"}, Password : {"", "secret"}, Disabled : BOOLEAN,
     Attributes : AttrMaps, LastActive : {0, 1}]

UserGroups ==
    [Identifier : {"devs"}, Disabled : BOOLEAN, Attributes : AttrMaps]

SharingProfiles ==
    [Identifier : {"", "2"}, Name : {"ro"}, PrimaryConnectionIdentifier : {"1"},
     Parameters : ParameterMaps, Attributes : AttrMaps]

Selves ==
    [Username : {"bob"}, Disabled : BOOLEAN, LastActive : {0, 1},
     Attributes : AttrMaps]

CodecIdle ==
    /\ codecOp = "idle"
    /\ codecIn = JNull
    /\ codecOut = JNull

PatchIdle ==
    /\ patchFn = "idle"
    /\ patchArgs = <<>>
    /\ patchOut = PatchOperation("", "", "")

\* the base URLs a caller constructs a client with
BaseURLs ==
    {<<"h", "t", "t", "p", ":", "/", "/", "a", "/">>,
     <<"h", "t", "t", "p", ":", "/", "/", "b">>}

\* strings.TrimRight(str, "/")
RECURSIVE TrimRightSlash(_)
TrimRightSlash(str) ==
    IF str # <<>> /\ str[Len(str)] = "/"
    THEN TrimRightSlash(SubSeq(str, 1, Len(str) - 1))
    ELSE str

\* NewClient(url)
NewClient(url) ==
    [baseURL |-> TrimRightSlash(url), authToken |-> "", dataSource |-> <<>>]

\* the client NewClient returns
ClientInit ==
    /\ \E url \in BaseURLs : baseURL = NewClient(url).baseURL
    /\ authToken = ""
    /\ dataSource = <<>>
    /\ called = "none"
    /\ callArgs = <<>>
    /\ request = NoRequest
    /\ wire = <<>>
    /\ response = NoResponse
    /\ err = <<>>
    /\ lastLogin = NoLogin
    /\ prevLogin = NoLogin

\* no call is in progress
FlightIdle ==
    /\ pc = "idle"
    /\ ctxDone = FALSE
    /\ pending = <<>>

\* the zero AuthResponse, and the body it was decoded from
NoAuth == [AuthToken |-> "", DataSource |-> <<>>, json |-> NoLogin]

\* no two calls run side by side
RaceIdle ==
    /\ authPc = "idle"
    /\ auth = NoAuth
    /\ assigned = {}
    /\ resPc = "idle"
    /\ overlap = FALSE

\* no error has been classified
PredIdle ==
    /\ predBase = <<>>
    /\ predErr = <<>>
    /\ predNotFound = FALSE
    /\ predDenied = FALSE

NoPath == [t |-> "none"]

\* dataPath has not been called
PathIdle ==
    /\ pathDs = <<>>
    /\ pathSegs = <<>>
    /\ pathOut = <<>>
    /\ pathPrev = NoPath

CodecInit ==
    /\ FlightIdle
    /\ RaceIdle
    /\ CodecIdle
    /\ PatchIdle
    /\ ClientInit
    /\ PredIdle
    /\ PathIdle

\* json.Unmarshal(data, &m) with m a fresh (nil) NullableStringMap
DecodeAttributes ==
    \E data \in AttrObjects \cup OtherWire :
        /\ codecOp' = "UnmarshalJSON"
        /\ codecIn' = data
        /\ codecOut' = UnmarshalJSON(NilMap, data)
        /\ UNCHANGED <<patchVars, clientVars, predVars, pathVars, flightVars, raceVars>>

\* json.Marshal(m)
EncodeAttributes ==
    \E m \in AttrMaps :
        /\ codecOp' = "MarshalJSON"
        /\ codecIn' = m
        /\ codecOut' = MarshalJSON(m)
        /\ UNCHANGED <<patchVars, clientVars, predVars, pathVars, flightVars, raceVars>>

\* json.Marshal of the map a decode produced; codecIn stays the decoded object
ReencodeAttributes ==
    /\ codecOp = "UnmarshalJSON"
    /\ ~codecOut.err
    /\ codecOp' = "Reencode"
    /\ codecIn' = codecIn
    /\ codecOut' = MarshalJSON(codecOut.m)
    /\ UNCHANGED <<patchVars, clientVars, predVars, pathVars, flightVars, raceVars>>

\* json.Marshal of a record, as Client.do does with a request body
MarshalConnection ==
    \E c \in Connections :
        /\ codecOp' = "MarshalConnection"
        /\ codecIn' = c
        /\ codecOut' = EncodeConnection(c)
        /\ UNCHANGED <<patchVars, clientVars, predVars, pathVars, flightVars, raceVars>>

MarshalConnectionGroup ==
    \E g \in ConnectionGroups :
        /\ codecOp' = "MarshalConnectionGroup"
        /\ codecIn' = g
        /\ codecOut' = EncodeConnectionGroup(g)
        /\ UNCHANGED <<patchVars, clientVars, predVars, pathVars, flightVars, raceVars>>

MarshalUser ==
    \E u \in Users :
        /\ codecOp' = "MarshalUser"
        /\ codecIn' = u
        /\ codecOut' = EncodeUser(u)
        /\ UNCHANGED <<patchVars, clientVars, predVars, pathVars, flightVars, raceVars>>

MarshalUserGroup ==
    \E g \in UserGroups :
        /\ codecOp' = "MarshalUserGroup"
        /\ codecIn' = g
        /\ codecOut' = EncodeUserGroup(g)
        /\ UNCHANGED <<patchVars, clientVars, predVars, pathVars, flightVars, raceVars>>

MarshalSharingProfile ==
    \E p \in SharingProfiles :
        /\ codecOp' = "MarshalSharingProfile"
        /\ codecIn' = p
        /\ codecOut' = EncodeSharingProfile(p)
        /\ UNCHANGED <<patchVars, clientVars, predVars, pathVars, flightVars, raceVars>>

MarshalSelf ==
    \E s \in Selves :
        /\ codecOp' = "MarshalSelf"
        /\ codecIn' = s
        /\ codecOut' = EncodeSelf(s)
        /\ UNCHANGED <<patchVars, clientVars, predVars, pathVars, flightVars, raceVars>>

CodecNext ==
    \/ DecodeAttributes
    \/ EncodeAttributes
    \/ ReencodeAttributes
    \/ MarshalConnection
    \/ MarshalConnectionGroup
    \/ MarshalUser
    \/ MarshalUserGroup
    \/ MarshalSharingProfile
    \/ MarshalSelf

CodecSpec == CodecInit /\ [][CodecNext]_vars

(***************************************************************************)
(* The patch helpers, called with every identifier and permission.         *)
(***************************************************************************)
ObjectPermissions == {"READ", "UPDATE", "DELETE", "ADMINISTER"}

SystemPermissions ==
    {"CREATE_USER", "CREATE_USER_GROUP", "CREATE_CONNECTION",
     "CREATE_CONNECTION_GROUP", "CREATE_SHARING_PROFILE", "ADMINISTER"}

\* identifiers: numeric, free-form, empty, and one holding a separator
Identifiers == {"3", "bob", "", "a/b"}

ObjectBuilders ==
    {"AddConnectionPermission", "RemoveConnectionPermission",
     "AddConnectionGroupPermission", "RemoveConnectionGroupPermission",
     "AddSharingProfilePermission", "RemoveSharingProfilePermission",
     "AddUserPermission", "RemoveUserPermission",
     "AddUserGroupPermission", "RemoveUserGroupPermission"}

SystemBuilders == {"AddSystemPermission", "RemoveSystemPermission"}

MembershipBuilders == {"AddGroupMembership", "RemoveGroupMembership"}

\* the call fn(args...)
CallBuilder(fn, args) ==
    CASE fn = "AddConnectionPermission" ->
            AddConnectionPermission(args[1], args[2])
      [] fn = "RemoveConnectionPermission" ->
            RemoveConnectionPermission(args[1], args[2])
      [] fn = "AddConnectionGroupPermission" ->
            AddConnectionGroupPermission(args[1], args[2])
      [] fn = "RemoveConnectionGroupPermission" ->
            RemoveConnectionGroupPermission(args[1], args[2])
      [] fn = "AddSharingProfilePermission" ->
            AddSharingProfilePermission(args[1], args[2])
      [] fn = "RemoveSharingProfilePermission" ->
            RemoveSharingProfilePermission(args[1], args[2])
      [] fn = "AddUserPermission" ->
            AddUserPermission(args[1], args[2])
      [] fn = "RemoveUserPermission" ->
            RemoveUserPermission(args[1], args[2])
      [] fn = "AddUserGroupPermission" ->
            AddUserGroupPermission(args[1], args[2])
      [] fn = "RemoveUserGroupPermission" ->
            RemoveUserGroupPermission(args[1], args[2])
      [] fn = "AddSystemPermission" -> AddSystemPermission(args[1])
      [] fn = "RemoveSystemPermission" -> RemoveSystemPermission(args[1])
      [] fn = "AddGroupMembership" -> AddGroupMembership(args[1])
      [] fn = "RemoveGroupMembership" -> RemoveGroupMembership(args[1])

PatchInit ==
    /\ FlightIdle
    /\ RaceIdle
    /\ PredIdle
    /\ PathIdle
    /\ CodecIdle
    /\ PatchIdle
    /\ ClientInit

BuildObjectPermission ==
    \E fn \in ObjectBuilders, id \in Identifiers, permission \in ObjectPermissions :
        /\ patchFn' = fn
        /\ patchArgs' = <<id, permission>>
        /\ patchOut' = CallBuilder(fn, <<id, permission>>)
        /\ UNCHANGED <<codecVars, clientVars, predVars, pathVars, flightVars, raceVars>>

BuildSystemPermission ==
    \E fn \in SystemBuilders, permission \in SystemPermissions :
        /\ patchFn' = fn
        /\ patchArgs' = <<permission>>
        /\ patchOut' = CallBuilder(fn, <<permission>>)
        /\ UNCHANGED <<codecVars, clientVars, predVars, pathVars, flightVars, raceVars>>

BuildGroupMembership ==
    \E fn \in MembershipBuilders, identifier \in Identifiers :
        /\ patchFn' = fn
        /\ patchArgs' = <<identifier>>
        /\ patchOut' = CallBuilder(fn, <<identifier>>)
        /\ UNCHANGED <<codecVars, clientVars, predVars, pathVars, flightVars, raceVars>>

PatchNext ==
    \/ BuildObjectPermission
    \/ BuildSystemPermission
    \/ BuildGroupMembership

PatchSpec == PatchInit /\ [][PatchNext]_vars

(***************************************************************************)
(* The client: every call is one synchronous request and response, made    *)
(* by a caller that makes one call at a time.                              *)
(***************************************************************************)
Mysql == <<"m", "y", "s", "q", "l">>

Postgresql == <<"p", "o", "s", "t", "g", "r", "e", "s", "q", "l">>

Alice == <<"a", "l", "i", "c", "e">>

\* a username with a reserved character, a space and a separator
BobAt == <<"b", "@", " ", "/", "x">>

Credentials == {<<"admin", "secret">>, <<"bad", "creds">>}

\* what a server answers to the token request with status 200
AuthBodies ==
    {Body("{\"authToken\":\"T1\",\"dataSource\":\"mysql\"}",
          JObject([k \in {"authToken", "dataSource"} |->
                     IF k = "authToken" THEN JString("T1") ELSE JString(Mysql)])),
     Body("{\"authToken\":\"T2\",\"dataSource\":\"postgresql\",\"username\":\"admin\"}",
          JObject([k \in {"authToken", "dataSource", "username"} |->
                     CASE k = "authToken" -> JString("T2")
                       [] k = "dataSource" -> JString(Postgresql)
                       [] k = "username" -> JString("admin")])),
     Body("{\"authToken\":\"T1\"}",
          JObject([k \in {"authToken"} |-> JString("T1")])),
     Body("{}", EmptyObject),
     Body("null", JNull),
     Body("[]", JArray(<<>>)),
     Body("{\"authToken\":5,\"dataSource\":\"mysql\"}",
          JObject([k \in {"authToken", "dataSource"} |->
                     IF k = "authToken" THEN JNumber(5) ELSE JString(Mysql)])),
     Body("", InvalidJSON),
     Body("<html>", InvalidJSON)}

PermissionDeniedBody ==
    Body("{\"message\":\"Permission Denied.\",\"type\":\"PERMISSION_DENIED\"}",
         JObject([k \in {"message", "type"} |->
                    IF k = "message"
                    THEN JString("Permission Denied.")
                    ELSE JString("PERMISSION_DENIED")]))

NotFoundBody ==
    Body("{\"message\":\"Not found\",\"type\":\"NOT_FOUND\"}",
         JObject([k \in {"message", "type"} |->
                    IF k = "message"
                    THEN JString("Not found")
                    ELSE JString("NOT_FOUND")]))

\* the error body of a Guacamole server in full: more members than the client
\* reads, one of them named like the field the client sets from the status
FullErrorBody ==
    Body("{\"message\":\"No such user\",\"translatableMessage\":{\"key\":\"APP.TEXT_UNTRANSLATED\"},\"statusCode\":null,\"HTTPStatus\":200,\"type\":\"NOT_FOUND\"}",
         JObject([k \in {"message", "translatableMessage", "statusCode",
                          "HTTPStatus", "type"} |->
                    CASE k = "message" -> JString("No such user")
                      [] k = "translatableMessage" ->
                           JObject([x \in {"key"} |-> JString("APP.TEXT_UNTRANSLATED")])
                      [] k = "statusCode" -> JNull
                      [] k = "HTTPStatus" -> JNumber(200)
                      [] k = "type" -> JString("NOT_FOUND")]))

\* error answers that are not the server's usual ones: a type that does not go
\* with the status, the full body, an empty body, a page of a proxy, JSON of
\* another shape, an object without the members, a member that is no string
OddErrors ==
    {<<500, NotFoundBody>>,
     <<404, FullErrorBody>>,
     <<404, Body("", InvalidJSON)>>,
     <<403, Body("<html>Forbidden</html>", InvalidJSON)>>,
     <<400, Body("null", JNull)>>,
     <<500, Body("[]", JArray(<<>>))>>,
     <<500, Body("{}", EmptyObject)>>,
     <<404, Body("{\"error\":\"gone\"}",
                 JObject([k \in {"error"} |-> JString("gone")]))>>,
     <<500, Body("{\"message\":5,\"type\":\"NOT_FOUND\"}",
                 JObject([k \in {"message", "type"} |->
                            IF k = "message" THEN JNumber(5)
                            ELSE JString("NOT_FOUND")]))>>,
     <<500, Body("{\"message\":\"boom\",\"type\":null}",
                 JObject([k \in {"message", "type"} |->
                            IF k = "message" THEN JString("boom") ELSE JNull]))>>}

TransportFailures ==
    {TransportFailure("context canceled"), TransportFailure("connection refused")}

AuthResponses ==
    TransportFailures \cup
    {HTTPResponse(200, b) : b \in AuthBodies} \cup
    {HTTPResponse(201, b) : b \in {x \in AuthBodies : x.raw = "{\"authToken\":\"T1\"}"}} \cup
    {HTTPResponse(403, PermissionDeniedBody),
     HTTPResponse(503, Body("Service Unavailable", InvalidJSON))} \cup
    {HTTPResponse(r[1], r[2]) : r \in OddErrors}

\* what a server answers to a resource request: no answer, 204 without a
\* body, 200 with an object, an array and text that is not JSON, and errors
Responses ==
    {TransportFailure("context canceled"),
     HTTPResponse(204, Body("", InvalidJSON)),
     HTTPResponse(200, Body("{\"username\":\"alice\"}",
                            JObject([k \in {"username"} |-> JString("alice")]))),
     HTTPResponse(200, Body("[]", JArray(<<>>))),
     HTTPResponse(200, Body("OK", InvalidJSON)),
     HTTPResponse(404, NotFoundBody),
     HTTPResponse(403, PermissionDeniedBody),
     HTTPResponse(503, Body("Service Unavailable", InvalidJSON))} \cup
    {HTTPResponse(r[1], r[2]) : r \in OddErrors}

\* the users a caller creates or replaces: without and with attributes
UserBodies ==
    {[Username |-> "alice", Password |-> "s3cr3t", Disabled |-> FALSE,
      Attributes |-> NilMap, LastActive |-> 0],
     [Username |-> "alice", Password |-> "", Disabled |-> TRUE,
      Attributes |-> MakeMap([k \in {"guac-full-name"} |-> "Alice"]),
      LastActive |-> 0]}

\* the records a caller creates or replaces, with two identifiers each
ConnectionBodies == {[ChildConnection EXCEPT !.Identifier = i] : i \in {"", "9"}}

ConnectionGroupBodies == {[ChildGroup EXCEPT !.Identifier = i] : i \in {"", "9"}}

UserGroupBodies ==
    {[Identifier |-> i, Disabled |-> FALSE, Attributes |-> NilMap] :
        i \in {"devs", "admins"}}

SharingProfileBodies ==
    {[Identifier |-> i, Name |-> "ro", PrimaryConnectionIdentifier |-> "1",
      Parameters |-> NilMap, Attributes |-> NilMap] : i \in {"", "9"}}

\* the identifier of a resource, and the parent segment as an identifier
Five == <<"5">>

DotDot == <<".", ".">>

ResourceIds == {Five, DotDot}

\* the ops a caller passes: nil, empty, one operation, two operations
OpsLists ==
    {NilSlice,
     MakeSlice(<<>>),
     MakeSlice(<<AddConnectionPermission("5", "READ")>>),
     MakeSlice(<<AddGroupMembership("admins"), RemoveGroupMembership("devs")>>)}

Client == [baseURL |-> baseURL, authToken |-> authToken, dataSource |-> dataSource]

\* a call of a method that has no assignment to the client's fields
Returns(name, arguments, resp, r) ==
    /\ called = "none"
    /\ called' = name
    /\ callArgs' = arguments
    /\ request' = r.request
    /\ wire' = r.sent
    /\ response' = resp
    /\ err' = r.err
    /\ UNCHANGED <<baseURL, authToken, dataSource, lastLogin, prevLogin>>
    /\ UNCHANGED <<codecVars, patchVars, predVars, pathVars, flightVars, raceVars>>

AuthenticateCall ==
    \E cred \in Credentials, resp \in AuthResponses :
        LET r == Authenticate(Client, cred[1], cred[2], resp)
        IN  /\ called = "none"
            /\ called' = "Authenticate"
            /\ callArgs' = cred
            /\ request' = r.request
            /\ wire' = r.sent
            /\ response' = resp
            /\ err' = r.err
            /\ baseURL' = r.c.baseURL
            /\ authToken' = r.c.authToken
            /\ dataSource' = r.c.dataSource
            /\ lastLogin' = IF r.err = <<>> THEN resp.body.json ELSE lastLogin
            /\ prevLogin' = IF r.err = <<>> THEN lastLogin ELSE prevLogin
            /\ UNCHANGED <<codecVars, patchVars, predVars, pathVars, flightVars, raceVars>>

LogoutCall ==
    \E resp \in Responses :
        Returns("Logout", <<>>, resp, Logout(Client, resp))

ListConnectionsCall ==
    \E resp \in Responses :
        Returns("ListConnections", <<>>, resp, ListConnections(Client, resp))

CreateUserCall ==
    \E user \in UserBodies, resp \in Responses :
        Returns("CreateUser", <<user>>, resp, CreateUser(Client, user, resp))

GetUserCall ==
    \E username \in {Alice, BobAt}, resp \in Responses :
        Returns("GetUser", <<username>>, resp, GetUser(Client, username, resp))

UpdateUserCall ==
    \E user \in UserBodies, resp \in Responses :
        Returns("UpdateUser", <<Alice, user>>, resp,
                UpdateUser(Client, Alice, user, resp))

DeleteUserCall ==
    \E username \in {Alice, BobAt, DotDot}, resp \in Responses :
        Returns("DeleteUser", <<username>>, resp,
                DeleteUser(Client, username, resp))

UpdateUserPermissionsCall ==
    \E ops \in OpsLists, resp \in Responses :
        Returns("UpdateUserPermissions", <<Alice, ops>>, resp,
                UpdateUserPermissions(Client, Alice, ops, resp))

UpdateUserGroupsCall ==
    \E ops \in OpsLists, resp \in Responses :
        Returns("UpdateUserGroups", <<Alice, ops>>, resp,
                UpdateUserGroups(Client, Alice, ops, resp))

UpdateUserGroupPermissionsCall ==
    \E ops \in OpsLists, resp \in Responses :
        Returns("UpdateUserGroupPermissions", <<Alice, ops>>, resp,
                UpdateUserGroupPermissions(Client, Alice, ops, resp))

UpdateUserGroupMemberUsersCall ==
    \E ops \in OpsLists, resp \in Responses :
        Returns("UpdateUserGroupMemberUsers", <<Alice, ops>>, resp,
                UpdateUserGroupMemberUsers(Client, Alice, ops, resp))

UpdateUserGroupMemberGroupsCall ==
    \E ops \in OpsLists, resp \in Responses :
        Returns("UpdateUserGroupMemberGroups", <<Alice, ops>>, resp,
                UpdateUserGroupMemberGroups(Client, Alice, ops, resp))

UpdateUserGroupParentGroupsCall ==
    \E ops \in OpsLists, resp \in Responses :
        Returns("UpdateUserGroupParentGroups", <<Alice, ops>>, resp,
                UpdateUserGroupParentGroups(Client, Alice, ops, resp))

ListUsersCall ==
    \E resp \in Responses :
        Returns("ListUsers", <<>>, resp, ListUsers(Client, resp))

ListConnectionGroupsCall ==
    \E resp \in Responses :
        Returns("ListConnectionGroups", <<>>, resp, ListConnectionGroups(Client, resp))

CreateConnectionGroupCall ==
    \E group \in ConnectionGroupBodies, resp \in Responses :
        Returns("CreateConnectionGroup", <<group>>, resp, CreateConnectionGroup(Client, group, resp))

GetConnectionGroupCall ==
    \E id \in ResourceIds, resp \in Responses :
        Returns("GetConnectionGroup", <<id>>, resp, GetConnectionGroup(Client, id, resp))

UpdateConnectionGroupCall ==
    \E group \in ConnectionGroupBodies, resp \in Responses :
        Returns("UpdateConnectionGroup", <<Five, group>>, resp,
                UpdateConnectionGroup(Client, Five, group, resp))

DeleteConnectionGroupCall ==
    \E id \in ResourceIds, resp \in Responses :
        Returns("DeleteConnectionGroup", <<id>>, resp, DeleteConnectionGroup(Client, id, resp))

CreateConnectionCall ==
    \E conn \in ConnectionBodies, resp \in Responses :
        Returns("CreateConnection", <<conn>>, resp, CreateConnection(Client, conn, resp))

GetConnectionCall ==
    \E id \in ResourceIds, resp \in Responses :
        Returns("GetConnection", <<id>>, resp, GetConnection(Client, id, resp))

UpdateConnectionCall ==
    \E conn \in ConnectionBodies, resp \in Responses :
        Returns("UpdateConnection", <<Five, conn>>, resp,
                UpdateConnection(Client, Five, conn, resp))

DeleteConnectionCall ==
    \E id \in ResourceIds, resp \in Responses :
        Returns("DeleteConnection", <<id>>, resp, DeleteConnection(Client, id, resp))

ListSharingProfilesCall ==
    \E resp \in Responses :
        Returns("ListSharingProfiles", <<>>, resp, ListSharingProfiles(Client, resp))

CreateSharingProfileCall ==
    \E profile \in SharingProfileBodies, resp \in Responses :
        Returns("CreateSharingProfile", <<profile>>, resp, CreateSharingProfile(Client, profile, resp))

GetSharingProfileCall ==
    \E id \in ResourceIds, resp \in Responses :
        Returns("GetSharingProfile", <<id>>, resp, GetSharingProfile(Client, id, resp))

UpdateSharingProfileCall ==
    \E profile \in SharingProfileBodies, resp \in Responses :
        Returns("UpdateSharingProfile", <<Five, profile>>, resp,
                UpdateSharingProfile(Client, Five, profile, resp))

DeleteSharingProfileCall ==
    \E id \in ResourceIds, resp \in Responses :
        Returns("DeleteSharingProfile", <<id>>, resp, DeleteSharingProfile(Client, id, resp))

ListUserGroupsCall ==
    \E resp \in Responses :
        Returns("ListUserGroups", <<>>, resp, ListUserGroups(Client, resp))

CreateUserGroupCall ==
    \E group \in UserGroupBodies, resp \in Responses :
        Returns("CreateUserGroup", <<group>>, resp, CreateUserGroup(Client, group, resp))

GetUserGroupCall ==
    \E id \in ResourceIds, resp \in Responses :
        Returns("GetUserGroup", <<id>>, resp, GetUserGroup(Client, id, resp))

UpdateUserGroupCall ==
    \E group \in UserGroupBodies, resp \in Responses :
        Returns("UpdateUserGroup", <<Five, group>>, resp,
                UpdateUserGroup(Client, Five, group, resp))

DeleteUserGroupCall ==
    \E id \in ResourceIds, resp \in Responses :
        Returns("DeleteUserGroup", <<id>>, resp, DeleteUserGroup(Client, id, resp))

\* the caller takes the result of the call and goes on
Continue ==
    /\ called # "none"
    /\ called' = "none"
    /\ callArgs' = <<>>
    /\ request' = NoRequest
    /\ wire' = <<>>
    /\ response' = NoResponse
    /\ err' = <<>>
    /\ UNCHANGED <<baseURL, authToken, dataSource, lastLogin, prevLogin>>
    /\ UNCHANGED <<codecVars, patchVars, predVars, pathVars, flightVars, raceVars>>

Init ==
    /\ FlightIdle
    /\ RaceIdle
    /\ ClientInit
    /\ CodecIdle
    /\ PatchIdle
    /\ PredIdle
    /\ PathIdle

Next ==
    \/ AuthenticateCall
    \/ LogoutCall
    \/ ListConnectionsCall
    \/ CreateUserCall
    \/ GetUserCall
    \/ UpdateUserCall
    \/ DeleteUserCall
    \/ UpdateUserPermissionsCall
    \/ UpdateUserGroupsCall
    \/ UpdateUserGroupPermissionsCall
    \/ UpdateUserGroupMemberUsersCall
    \/ UpdateUserGroupMemberGroupsCall
    \/ UpdateUserGroupParentGroupsCall
    \/ ListUsersCall
    \/ ListConnectionGroupsCall
    \/ CreateConnectionGroupCall
    \/ GetConnectionGroupCall
    \/ UpdateConnectionGroupCall
    \/ DeleteConnectionGroupCall
    \/ CreateConnectionCall
    \/ GetConnectionCall
    \/ UpdateConnectionCall
    \/ DeleteConnectionCall
    \/ ListSharingProfilesCall
    \/ CreateSharingProfileCall
    \/ GetSharingProfileCall
    \/ UpdateSharingProfileCall
    \/ DeleteSharingProfileCall
    \/ ListUserGroupsCall
    \/ CreateUserGroupCall
    \/ GetUserGroupCall
    \/ UpdateUserGroupCall
    \/ DeleteUserGroupCall
    \/ Continue

Spec == Init /\ [][Next]_vars

(***************************************************************************)
(* The error predicates, applied to the errors the methods return and to   *)
(* what callers make of them with fmt.Errorf("...: %w", err).              *)
(***************************************************************************)
MaxWraps == 3

\* the values of APIError.Type: the two constants, near misses, others
ErrorTypes ==
    {"NOT_FOUND", "PERMISSION_DENIED", "", "not_found", "NOT_FOUND_ERROR",
     "INTERNAL_ERROR"}

\* the errors a method returns: nil, an APIError, a transport or decode failure
BaseErrors ==
    {<<>>, TransportError("context canceled"), DecodeError("<html>")} \cup
    {<<[k |-> "api", HTTPStatus |-> st, Type |-> ty, Message |-> "m"]>> :
        st \in {403, 404, 500}, ty \in ErrorTypes}

WrapFormats == {"get user %q: %w", "refresh: %w"}

ErrInit ==
    /\ FlightIdle
    /\ RaceIdle
    /\ predBase \in BaseErrors
    /\ predErr = predBase
    /\ predNotFound = IsNotFound(predBase)
    /\ predDenied = IsPermissionDenied(predBase)
    /\ ClientInit
    /\ CodecIdle
    /\ PatchIdle
    /\ PathIdle

\* the caller wraps the error once more and asks again
WrapError ==
    \E format \in WrapFormats :
        /\ predErr # <<>>
        /\ Len(predErr) <= MaxWraps
        /\ predErr' = Wrap(format, <<>>, predErr)
        /\ predNotFound' = IsNotFound(predErr')
        /\ predDenied' = IsPermissionDenied(predErr')
        /\ UNCHANGED <<predBase, codecVars, patchVars, clientVars, pathVars, flightVars, raceVars>>

ErrNext == WrapError

ErrSpec == ErrInit /\ [][ErrNext]_vars

(***************************************************************************)
(* dataPath, applied to data sources and segments.                         *)
(***************************************************************************)
\* the identifiers a caller passes: plain, with reserved characters, with an
\* escape sequence of their own, empty, and the dot segments
PathIdentifiers ==
    {<<"4", "2">>, <<"a", "/", "b">>, <<"a", " ", "b">>, <<"a", "@", "b">>,
     <<"a", "%", "2", "F", "b">>, <<"/">>, BobAt, <<>>, <<".">>, <<".", ".">>}

\* the data source of the client: before Authenticate, after it
PathDataSources == {<<>>, Postgresql, <<"m", "/", "d">>}

\* the segment lists of the resource methods: collection, by id, below an id
PathSegments ==
    {<<SegUsers>>} \cup
    {<<SegUsers, id>> : id \in PathIdentifiers} \cup
    {<<SegUsers, id, SegPermissions>> : id \in PathIdentifiers}

PathInit ==
    /\ FlightIdle
    /\ RaceIdle
    /\ PathIdle
    /\ ClientInit
    /\ CodecIdle
    /\ PatchIdle
    /\ PredIdle

\* c.dataPath(segments...) on a client whose data source is ds
BuildPath ==
    \E ds \in PathDataSources, segs \in PathSegments :
        /\ pathDs' = ds
        /\ pathSegs' = segs
        /\ pathOut' = dataPath(ds, segs)
        /\ pathPrev' = IF pathOut = <<>>
                       THEN NoPath
                       ELSE [t |-> "path", ds |-> pathDs, segs |-> pathSegs,
                             out |-> pathOut]
        /\ UNCHANGED <<codecVars, patchVars, clientVars, predVars, flightVars, raceVars>>

PathNext == BuildPath

PathSpec == PathInit /\ [][PathNext]_vars

(***************************************************************************)
(* Calls that take time.  A call hands its request to httpClient.Do and    *)
(* waits there ("inflight") until the server has answered or the context   *)
(* it built the request with is done; then it returns.  net/http gives up  *)
(* a request whose context is done and makes Do return the context's       *)
(* error; a server is free never to answer.  What the method does with     *)
(* the outcome of Do depends on its arguments and on the client's fields   *)
(* as they were when it built the request: it is fixed from then on.       *)
(***************************************************************************)
\* http.NewRequest: the request is not bound to the caller's context
NewRequestWithoutContext(done) == FALSE

\* http.NewRequestWithContext(ctx, ...): whether the transport gives up the
\* request, given whether ctx is done
NewRequestWithContext(done) == done

\* the calls of this part: a method and its arguments
FlightCalls ==
    {<<"Authenticate", <<"admin", "secret">>>>,
     <<"Logout", <<>>>>,
     <<"ListConnections", <<>>>>,
     <<"GetUser", <<Alice>>>>,
     <<"DeleteUser", <<BobAt>>>>} \cup
    {<<"CreateUser", <<u>>>> : u \in UserBodies} \cup
    {<<"UpdateUser", <<Alice, u>>>> : u \in UserBodies} \cup
    {<<"UpdateUserPermissions", <<Alice, ops>>>> : ops \in OpsLists}

\* what the public method name does on client c with arguments args when the
\* transport answers resp: [c, request, sent, err], c the client afterwards
Result(name, args, c, resp) ==
    LET keep(r) == [c |-> c, request |-> r.request, sent |-> r.sent,
                    err |-> r.err]
    IN  CASE name = "Authenticate" -> Authenticate(c, args[1], args[2], resp)
          [] name = "Logout" -> keep(Logout(c, resp))
          [] name = "ListConnections" -> keep(ListConnections(c, resp))
          [] name = "GetUser" -> keep(GetUser(c, args[1], resp))
          [] name = "DeleteUser" -> keep(DeleteUser(c, args[1], resp))
          [] name = "CreateUser" -> keep(CreateUser(c, args[1], resp))
          [] name = "UpdateUser" -> keep(UpdateUser(c, args[1], args[2], resp))
          [] name = "UpdateUserPermissions" ->
               keep(UpdateUserPermissions(c, args[1], args[2], resp))

\* the outcomes of httpClient.Do for the request of the method name: the
\* answers of a server and the failures of the transport
AnswersTo(name) == IF name = "Authenticate" THEN AuthResponses ELSE Responses

\* the part of Result that is left when Do has returned
Outcome(name, args, c, resp) ==
    LET r == Result(name, args, c, resp)
    IN  [c |-> r.c, err |-> r.err]

CancelInit ==
    /\ FlightIdle
    /\ RaceIdle
    /\ ClientInit
    /\ CodecIdle
    /\ PatchIdle
    /\ PredIdle
    /\ PathIdle

\* the method builds its request and hands it to httpClient.Do
StartCall ==
    \E call \in FlightCalls :
        LET r == Result(call[1], call[2], Client,
                        TransportFailure("context canceled"))
        IN  /\ pc = "idle"
            /\ pc' = "inflight"
            /\ ctxDone' = FALSE
            /\ pending' = [resp \in AnswersTo(call[1]) |->
                              Outcome(call[1], call[2], Client, resp)]
            /\ called' = call[1]
            /\ callArgs' = call[2]
            /\ request' = r.request
            /\ wire' = r.sent
            /\ response' = NoResponse
            /\ err' = <<>>
            /\ UNCHANGED <<baseURL, authToken, dataSource, lastLogin, prevLogin>>
            /\ UNCHANGED <<codecVars, patchVars, predVars, pathVars, raceVars>>

\* the caller cancels the context while the request is in flight
CancelContext ==
    /\ pc = "inflight"
    /\ ~ctxDone
    /\ ctxDone' = TRUE
    /\ UNCHANGED <<codecVars, patchVars, clientVars, predVars, pathVars, raceVars>>
    /\ UNCHANGED <<pc, pending>>

\* httpClient.Do returns with resp and the method runs to its return
FlightReturns(resp) ==
    LET r == pending[resp]
        login == called = "Authenticate" /\ r.err = <<>>
    IN  /\ pc' = "returned"
        /\ response' = resp
        /\ err' = r.err
        /\ baseURL' = r.c.baseURL
        /\ authToken' = r.c.authToken
        /\ dataSource' = r.c.dataSource
        /\ lastLogin' = IF login THEN resp.body.json ELSE lastLogin
        /\ prevLogin' = IF login THEN lastLogin ELSE prevLogin
        /\ UNCHANGED <<called, callArgs, request, wire, ctxDone, pending>>
        /\ UNCHANGED <<codecVars, patchVars, predVars, pathVars, raceVars>>

\* the server answers, or the transport fails, before any cancellation
ServerAnswers ==
    /\ pc = "inflight"
    /\ ~NewRequestWithContext(ctxDone)
    /\ \E resp \in AnswersTo(called) : FlightReturns(resp)

\* the context is done: Do gives up the request and returns the context's error
AbortOnCancel ==
    /\ pc = "inflight"
    /\ NewRequestWithContext(ctxDone)
    /\ FlightReturns(TransportFailure("context canceled"))

\* the caller takes the result of the call and goes on
FinishCall ==
    /\ pc = "returned"
    /\ pc' = "idle"
    /\ ctxDone' = FALSE
    /\ pending' = <<>>
    /\ called' = "none"
    /\ callArgs' = <<>>
    /\ request' = NoRequest
    /\ wire' = <<>>
    /\ response' = NoResponse
    /\ err' = <<>>
    /\ UNCHANGED <<baseURL, authToken, dataSource, lastLogin, prevLogin>>
    /\ UNCHANGED <<codecVars, patchVars, predVars, pathVars, raceVars>>

CancelNext ==
    \/ StartCall
    \/ CancelContext
    \/ ServerAnswers
    \/ AbortOnCancel
    \/ FinishCall

CancelSpec == CancelInit /\ [][CancelNext]_vars /\ WF_vars(AbortOnCancel)

(***************************************************************************)
(* Two goroutines on one client: one calls Authenticate, the other a       *)
(* resource method.  The client has no lock and no atomic field.  The      *)
(* resource method reads c.dataSource when it calls dataPath and           *)
(* c.authToken later, inside do; Authenticate assigns the two fields one   *)
(* after the other.  The accesses race, so nothing orders the two          *)
(* assignments for the other goroutine: it can see either one first.       *)
(***************************************************************************)
\* the resource calls that run beside Authenticate
RaceCalls ==
    {<<"ListConnections", <<>>, <<SegConnections>>>>,
     <<"DeleteUser", <<Alice>>, <<SegUsers, Alice>>>>}

RaceInit ==
    /\ FlightIdle
    /\ RaceIdle
    /\ ClientInit
    /\ CodecIdle
    /\ PatchIdle
    /\ PredIdle
    /\ PathIdle

\* Authenticate builds its request and hands it to httpClient.Do
AuthStarts ==
    /\ authPc = "idle"
    /\ authPc' = "waiting"
    /\ overlap' = (overlap \/ resPc = "path")
    /\ UNCHANGED <<auth, assigned, resPc>>
    /\ UNCHANGED <<codecVars, patchVars, clientVars, predVars, pathVars, flightVars>>

\* Do returns: Authenticate returns an error, or has decoded the response
AuthAnswered ==
    \E resp \in AuthResponses :
        LET r == Authenticate(Client, "admin", "secret", resp)
        IN  /\ authPc = "waiting"
            /\ IF r.err # <<>>
               THEN /\ authPc' = "idle"
                    /\ auth' = NoAuth
               ELSE /\ authPc' = "storing"
                    /\ auth' = [AuthToken |-> r.c.authToken,
                                DataSource |-> r.c.dataSource,
                                json |-> resp.body.json]
            /\ UNCHANGED <<assigned, resPc, overlap>>
            /\ UNCHANGED <<codecVars, patchVars, clientVars, predVars, pathVars,
                           flightVars>>

\* c.authToken = auth.AuthToken
StoreToken ==
    /\ authPc = "storing"
    /\ "authToken" \notin assigned
    /\ authToken' = auth.AuthToken
    /\ assigned' = assigned \cup {"authToken"}
    /\ UNCHANGED <<baseURL, dataSource, callVars, lastLogin, prevLogin>>
    /\ UNCHANGED <<authPc, auth, resPc, overlap>>
    /\ UNCHANGED <<codecVars, patchVars, predVars, pathVars, flightVars>>

\* c.dataSource = auth.DataSource
StoreDataSource ==
    /\ authPc = "storing"
    /\ "dataSource" \notin assigned
    /\ dataSource' = auth.DataSource
    /\ assigned' = assigned \cup {"dataSource"}
    /\ UNCHANGED <<baseURL, authToken, callVars, lastLogin, prevLogin>>
    /\ UNCHANGED <<authPc, auth, resPc, overlap>>
    /\ UNCHANGED <<codecVars, patchVars, predVars, pathVars, flightVars>>

\* Authenticate returns nil
AuthReturns ==
    /\ authPc = "storing"
    /\ assigned = {"authToken", "dataSource"}
    /\ authPc' = "idle"
    /\ auth' = NoAuth
    /\ assigned' = {}
    /\ lastLogin' = auth.json
    /\ prevLogin' = lastLogin
    /\ UNCHANGED <<baseURL, authToken, dataSource, callVars, resPc, overlap>>
    /\ UNCHANGED <<codecVars, patchVars, predVars, pathVars, flightVars>>

\* the resource method evaluates c.dataPath(...), the argument of its helper
ResourceBuildsPath ==
    \E call \in RaceCalls :
        /\ resPc = "idle"
        /\ resPc' = "path"
        /\ called' = call[1]
        /\ callArgs' = call[2]
        /\ pathDs' = dataSource
        /\ pathSegs' = call[3]
        /\ pathOut' = dataPath(dataSource, call[3])
        /\ overlap' = (authPc # "idle")
        /\ UNCHANGED <<baseURL, authToken, dataSource, request, wire, response,
                       err, lastLogin, prevLogin, pathPrev>>
        /\ UNCHANGED <<authPc, auth, assigned>>
        /\ UNCHANGED <<codecVars, patchVars, predVars, flightVars>>

\* the helper calls do, which reads c.authToken and sends the request, and
\* the method runs to its return: the method on a client that holds the data
\* source read before and the token read now
ResourceSends ==
    \E resp \in Responses :
        LET c == [Client EXCEPT !.dataSource = pathDs]
            r == IF called = "ListConnections"
                 THEN ListConnections(c, resp)
                 ELSE DeleteUser(c, callArgs[1], resp)
        IN  /\ resPc = "path"
            /\ resPc' = "sent"
            /\ request' = r.request
            /\ wire' = r.sent
            /\ response' = resp
            /\ err' = r.err
            /\ overlap' = (overlap \/ authPc # "idle")
            /\ UNCHANGED <<baseURL, authToken, dataSource, called, callArgs,
                           lastLogin, prevLogin>>
            /\ UNCHANGED <<authPc, auth, assigned>>
            /\ UNCHANGED <<codecVars, patchVars, predVars, pathVars, flightVars>>

\* the caller takes the result of the resource call and goes on
ResourceReturns ==
    /\ resPc = "sent"
    /\ resPc' = "idle"
    /\ overlap' = FALSE
    /\ called' = "none"
    /\ callArgs' = <<>>
    /\ request' = NoRequest
    /\ wire' = <<>>
    /\ response' = NoResponse
    /\ err' = <<>>
    /\ pathDs' = <<>>
    /\ pathSegs' = <<>>
    /\ pathOut' = <<>>
    /\ UNCHANGED <<baseURL, authToken, dataSource, lastLogin, prevLogin, pathPrev>>
    /\ UNCHANGED <<authPc, auth, assigned>>
    /\ UNCHANGED <<codecVars, patchVars, predVars, flightVars>>

RaceNext ==
    \/ AuthStarts
    \/ AuthAnswered
    \/ StoreToken
    \/ StoreDataSource
    \/ AuthReturns
    \/ ResourceBuildsPath
    \/ ResourceSends
    \/ ResourceReturns

RaceSpec == RaceInit /\ [][RaceNext]_vars

(***************************************************************************)
(* The session and the request pipeline: C1 to C4, C10.                    *)
(***************************************************************************)
\* the string member key of a JSON value, zero when there is none
StringMember(json, key, zero) ==
    IF json.t = "object" /\ key \in DOMAIN json.members
       /\ json.members[key].t = "string"
    THEN json.members[key].s
    ELSE zero

\* the list, create, get, replace and delete of the five resource kinds: the
\* method, what it does, and the segment of its collection
CrudMethods ==
    {<<"ListConnections", "list", SegConnections>>, <<"CreateConnection", "create", SegConnections>>,
     <<"GetConnection", "get", SegConnections>>, <<"UpdateConnection", "replace", SegConnections>>,
     <<"DeleteConnection", "delete", SegConnections>>,
     <<"ListConnectionGroups", "list", SegConnectionGroups>>,
     <<"CreateConnectionGroup", "create", SegConnectionGroups>>,
     <<"GetConnectionGroup", "get", SegConnectionGroups>>,
     <<"UpdateConnectionGroup", "replace", SegConnectionGroups>>,
     <<"DeleteConnectionGroup", "delete", SegConnectionGroups>>,
     <<"ListUsers", "list", SegUsers>>, <<"CreateUser", "create", SegUsers>>,
     <<"GetUser", "get", SegUsers>>, <<"UpdateUser", "replace", SegUsers>>,
     <<"DeleteUser", "delete", SegUsers>>,
     <<"ListUserGroups", "list", SegUserGroups>>, <<"CreateUserGroup", "create", SegUserGroups>>,
     <<"GetUserGroup", "get", SegUserGroups>>, <<"UpdateUserGroup", "replace", SegUserGroups>>,
     <<"DeleteUserGroup", "delete", SegUserGroups>>,
     <<"ListSharingProfiles", "list", SegSharingProfiles>>,
     <<"CreateSharingProfile", "create", SegSharingProfiles>>,
     <<"GetSharingProfile", "get", SegSharingProfiles>>,
     <<"UpdateSharingProfile", "replace", SegSharingProfiles>>,
     <<"DeleteSharingProfile", "delete", SegSharingProfiles>>}

\* the methods that go through Client.do
PipelineMethods ==
    {"Logout", "ListConnections", "CreateUser", "GetUser", "UpdateUser",
     "DeleteUser", "UpdateUserPermissions", "UpdateUserGroups",
     "UpdateUserGroupPermissions", "UpdateUserGroupMemberUsers",
     "UpdateUserGroupMemberGroups", "UpdateUserGroupParentGroups"} \cup
    {m[1] : m \in CrudMethods}

PatchMethods ==
    {"UpdateUserPermissions", "UpdateUserGroups", "UpdateUserGroupPermissions",
     "UpdateUserGroupMemberUsers", "UpdateUserGroupMemberGroups",
     "UpdateUserGroupParentGroups"}

\* the request req carries token as its Guacamole-Token header, and no such
\* header when token is empty
CarriesToken(req, token) ==
    IF token # ""
    THEN /\ "Guacamole-Token" \in DOMAIN req.header
         /\ req.header["Guacamole-Token"] = token
    ELSE "Guacamole-Token" \notin DOMAIN req.header

\* C1: after any sequence of calls the token and the data source are the
\* authToken and dataSource of the response to the most recent Authenticate that
\* returned nil (an absent member being the empty value), and the initial empty
\* values when none has.
C1_SessionIsLastLogin ==
    IF lastLogin = NoLogin
    THEN authToken = "" /\ dataSource = <<>>
    ELSE /\ authToken = StringMember(lastLogin, "authToken", "")
         /\ dataSource = StringMember(lastLogin, "dataSource", <<>>)

\* a second successful Authenticate has overwritten the session of the first
C1_Witness ==
    /\ called = "Authenticate"
    /\ err = <<>>
    /\ prevLogin # NoLogin
    /\ StringMember(prevLogin, "authToken", "") = "T1"
    /\ StringMember(prevLogin, "dataSource", <<>>) = Mysql
    /\ authToken = "T2"
    /\ dataSource = Postgresql

\* C2: an Authenticate that returns an error, for any cause, leaves the token
\* and the data source as they were before the call.
C2_FailedAuthKeepsSession ==
    [][(called' = "Authenticate" /\ err' # <<>>) =>
          (authToken' = authToken /\ dataSource' = dataSource)]_vars

\* a response with status 200 whose body cannot be decoded, after a login
C2_Witness ==
    /\ called = "Authenticate"
    /\ err # <<>>
    /\ response.kind = "http"
    /\ response.status = StatusOK
    /\ response.body.json.t = "object"
    /\ authToken = "T2"
    /\ dataSource = Postgresql

\* C3: every request sent through the pipeline carries the Guacamole-Token
\* header with the token the client holds when the request is built, and no
\* such header when that token is empty.
C3_TokenHeader ==
    [][called' \in PipelineMethods =>
          (request'.sent /\ CarriesToken(request', authToken))]_vars

C3_Witness ==
    /\ called = "UpdateUserGroups"
    /\ request.sent
    /\ authToken = "T1"
    /\ request.header["Guacamole-Token"] = "T1"

\* C4: Logout sends DELETE /api/session with the current token and leaves the
\* token and the data source unchanged, whether it succeeds or fails.
C4_LogoutKeepsSession ==
    [][called' = "Logout" =>
          /\ request'.sent
          /\ request'.method = "DELETE"
          /\ request'.path = ApiSession
          /\ CarriesToken(request', authToken)
          /\ authToken' = authToken
          /\ dataSource' = dataSource]_vars

\* a Logout that failed on a client that had logged in
C4_Witness ==
    /\ called = "Logout"
    /\ err # <<>>
    /\ authToken = "T1"
    /\ dataSource = Mysql
    /\ Text(request.path) = "/api/session"
    /\ request.header["Guacamole-Token"] = "T1"

\* C10: every PATCH request of a permission or membership update method has a
\* JSON array as its body, for every ops argument, nil and empty included.
C10_PatchBodyIsArray ==
    called \in PatchMethods =>
        /\ request.sent
        /\ request.method = "PATCH"
        /\ request.body.t = "array"

(***************************************************************************)
(* Errors of the calls: C11, C12, C14, C15.                                *)
(***************************************************************************)
\* the call that has just returned was answered with a status outside [200,300)
AnsweredNon2xx ==
    /\ called # "none"
    /\ response.kind = "http"
    /\ (response.status < 200 \/ response.status >= 300)

\* a JSON object with string members message and type
IsErrorObject(json) ==
    /\ json.t = "object"
    /\ {"message", "type"} \subseteq DOMAIN json.members
    /\ json.members["message"].t = "string"
    /\ json.members["type"].t = "string"

\* the APIError values in the chain of e
APIErrorsOf(e) == {e[i] : i \in {j \in DOMAIN e : e[j].k = "api"}}

C14_StatusClassifies ==
    (called # "none" /\ response.kind = "http") =>
        /\ response.status = 404 => IsNotFound(err)
        /\ response.status = 403 => IsPermissionDenied(err)

\* C15: every error a public method returns has an APIError in its chain.
C15_EveryErrorIsAPIError ==
    (called # "none" /\ err # <<>>) => As(err).found

IsAttrObject(j) ==
    /\ j.t = "object"
    /\ \A k \in DOMAIN j.members : j.members[k].t \in {"null", "string"}

MarshalRecordOps ==
    {"MarshalConnection", "MarshalConnectionGroup", "MarshalUser",
     "MarshalUserGroup", "MarshalSharingProfile", "MarshalSelf"}

\* C5: encoding an attribute map always yields a JSON object, never null, and
\* exactly {} when the map is nil or empty.
C5_EncodeIsObject ==
    codecOp = "MarshalJSON" =>
        /\ codecOut.t = "object"
        /\ codecOut # JNull
        /\ MapLen(codecIn) = 0 => codecOut = EmptyObject
        /\ DOMAIN codecOut.members = DOMAIN codecIn.kv

C5_Witness ==
    /\ codecOp = "MarshalJSON"
    /\ codecIn = NilMap
    /\ codecOut = EmptyObject

\* C6: every record type with an attribute map encodes a nil or empty map as
\* the member "attributes": {}, never leaving the member out and never as null.
C6_AttributesAlwaysPresent ==
    (codecOp \in MarshalRecordOps /\ MapLen(codecIn.Attributes) = 0) =>
        /\ "attributes" \in DOMAIN codecOut.members
        /\ codecOut.members["attributes"] = EmptyObject

\* C7: decoding an object of strings and nulls gives a map whose lookup returns
\* "" for a key that was null and the string itself for a key that was a string.
C7_DecodeLookup ==
    (codecOp = "UnmarshalJSON" /\ IsAttrObject(codecIn)) =>
        /\ ~codecOut.err
        /\ \A k \in DOMAIN codecIn.members :
              Lookup(codecOut.m, k) =
                  IF codecIn.members[k].t = "null"
                  THEN ""
                  ELSE codecIn.members[k].s

C7_Witness ==
    /\ codecOp = "UnmarshalJSON"
    /\ IsAttrObject(codecIn)
    /\ \E k \in DOMAIN codecIn.members : codecIn.members[k].t = "null"
    /\ \E k \in DOMAIN codecIn.members :
          /\ codecIn.members[k] = JString("Alice")
          /\ Lookup(codecOut.m, k) = "Alice"

\* C8: decoding preserves the key set, so a key whose value was null is a key of
\* the map, and is a key of the object the map encodes to.
C8_KeysPreserved ==
    /\ (codecOp = "UnmarshalJSON" /\ IsAttrObject(codecIn)) =>
          DOMAIN codecOut.m.kv = DOMAIN codecIn.members
    /\ (codecOp = "Reencode" /\ IsAttrObject(codecIn)) =>
          DOMAIN codecOut.members = DOMAIN codecIn.members

(***************************************************************************)
(* The patch helpers: C9.                                                  *)
(***************************************************************************)
\* the table of path templates, by edit kind
PathPrefix ==
    [ConnectionPermission |-> "/connectionPermissions/",
     ConnectionGroupPermission |-> "/connectionGroupPermissions/",
     SharingProfilePermission |-> "/sharingProfilePermissions/",
     UserPermission |-> "/userPermissions/",
     UserGroupPermission |-> "/userGroupPermissions/"]

\* builder names, as <<op prefix, edit kind>>
BuilderName ==
    [AddConnectionPermission |-> <<"add", "ConnectionPermission">>,
     RemoveConnectionPermission |-> <<"remove", "ConnectionPermission">>,
     AddConnectionGroupPermission |-> <<"add", "ConnectionGroupPermission">>,
     RemoveConnectionGroupPermission |-> <<"remove", "ConnectionGroupPermission">>,
     AddSharingProfilePermission |-> <<"add", "SharingProfilePermission">>,
     RemoveSharingProfilePermission |-> <<"remove", "SharingProfilePermission">>,
     AddUserPermission |-> <<"add", "UserPermission">>,
     RemoveUserPermission |-> <<"remove", "UserPermission">>,
     AddUserGroupPermission |-> <<"add", "UserGroupPermission">>,
     RemoveUserGroupPermission |-> <<"remove", "UserGroupPermission">>,
     AddSystemPermission |-> <<"add", "SystemPermission">>,
     RemoveSystemPermission |-> <<"remove", "SystemPermission">>,
     AddGroupMembership |-> <<"add", "GroupMembership">>,
     RemoveGroupMembership |-> <<"remove", "GroupMembership">>]

\* the other builder of the same edit kind
Counterpart(fn) ==
    CHOOSE other \in DOMAIN BuilderName :
        /\ other # fn
        /\ BuilderName[other][2] = BuilderName[fn][2]

\* C9: each of the 14 builders returns op "add" or "remove" as its name says, the
\* path of its edit kind's template and the permission (or member) as value; the
\* Add and Remove builder of one kind differ only in op.
C9_PatchTemplates ==
    patchFn # "idle" =>
        LET kind == BuilderName[patchFn][2]
            other == CallBuilder(Counterpart(patchFn), patchArgs)
        IN  /\ Cardinality(DOMAIN BuilderName) = 14
            /\ patchOut.Op = BuilderName[patchFn][1]
            /\ patchOut.Path =
                  CASE kind = "SystemPermission" -> "/systemPermissions"
                    [] kind = "GroupMembership" -> "/"
                    [] OTHER -> PathPrefix[kind] \o patchArgs[1]
            /\ patchOut.Value = patchArgs[Len(patchArgs)]
            /\ other.Op # patchOut.Op
            /\ other.Op \in {"add", "remove"}
            /\ other.Path = patchOut.Path
            /\ other.Value = patchOut.Value

C9_Witness ==
    /\ patchFn = "RemoveUserGroupPermission"
    /\ patchArgs = <<"a/b", "ADMINISTER">>
    /\ patchOut = PatchOperation("remove", "/userGroupPermissions/a/b", "ADMINISTER")

(***************************************************************************)
(* The error predicates: C13.                                              *)
(***************************************************************************)
\* the error the method returned is an APIError of type ty
BaseHasType(ty) ==
    \E i \in DOMAIN predBase : predBase[i].k = "api" /\ predBase[i].Type = ty

\* C13: IsNotFound is true exactly for an error that carries an APIError of
\* type "NOT_FOUND" and IsPermissionDenied exactly for type
\* "PERMISSION_DENIED"; both are false for nil and for an error without an
\* APIError, and wrapping the error any number of times changes neither.
C13_Predicates ==
    /\ predNotFound <=> BaseHasType("NOT_FOUND")
    /\ predDenied <=> BaseHasType("PERMISSION_DENIED")

\* a not-found error under as many wraps as the model makes
C13_Witness ==
    /\ Len(predErr) = MaxWraps + 1
    /\ BaseHasType("NOT_FOUND")
    /\ predNotFound
    /\ ~predDenied

(***************************************************************************)
(* Request paths: C16 to C18.                                              *)
(***************************************************************************)
\* how many times the character ch is in str
RECURSIVE CountOf(_, _)
CountOf(ch, str) ==
    IF str = <<>>
    THEN 0
    ELSE (IF Head(str) = ch THEN 1 ELSE 0) + CountOf(ch, Tail(str))

\* how many times "%2F" is in str
RECURSIVE CountEscapedSlash(_)
CountEscapedSlash(str) ==
    IF Len(str) < 3
    THEN 0
    ELSE (IF SubSeq(str, 1, 3) = <<"%", "2", "F">> THEN 1 ELSE 0)
         + CountEscapedSlash(Tail(str))

\* the "/" characters inside the data source and the segments of the last call
RECURSIVE SlashesIn(_)
SlashesIn(segs) ==
    IF segs = <<>> THEN 0 ELSE CountOf("/", Head(segs)) + SlashesIn(Tail(segs))

\* C16: every "/" inside the data source or a segment is in the path as %2F
\* and not as a separator: the separators of the path are those of the prefix
\* and one before each segment, whatever characters the segments hold.
C16_SlashesEncoded ==
    pathOut # <<>> =>
        /\ CountEscapedSlash(pathOut) = SlashesIn(<<pathDs>> \o pathSegs)
        /\ CountOf("/", pathOut) = CountOf("/", ApiSessionData) + Len(pathSegs)

\* C17: every "@" of an identifier is in the path as %40 and every space as
\* %20, so the path holds neither character.
C17_AtAndSpaceEncoded ==
    pathOut # <<>> => (CountOf("@", pathOut) = 0 /\ CountOf(" ", pathOut) = 0)

\* C18: with one data source and one collection, two different identifiers
\* never give the same path, and an identifier never gives the path of the
\* collection.
C18_IdentifiersUnambiguous ==
    (/\ pathPrev.t = "path"
     /\ pathPrev.ds = pathDs
     /\ Len(pathSegs) = 2
     /\ pathPrev.segs[1] = pathSegs[1]) =>
        /\ (Len(pathPrev.segs) = 2 /\ pathPrev.segs[2] # pathSegs[2]) =>
              pathPrev.out # pathOut
        /\ Len(pathPrev.segs) = 1 => pathPrev.out # pathOut

(***************************************************************************)
(* Cancellation: C20.                                                      *)
(***************************************************************************)
\* C20: once the context of a call is cancelled while its request is in
\* flight, the call eventually returns, and what it returns is an error that
\* is neither not-found nor permission-denied.
C20_CancelledCallReturnsError ==
    (pc = "inflight" /\ ctxDone) ~>
        (/\ pc = "returned"
         /\ ctxDone
         /\ err # <<>>
         /\ ~IsNotFound(err)
         /\ ~IsPermissionDenied(err))

\* a cancelled UpdateUser has returned the error of the context
C20_Witness ==
    /\ pc = "returned"
    /\ ctxDone
    /\ called = "UpdateUser"
    /\ response = TransportFailure("context canceled")
    /\ err # <<>>

(***************************************************************************)
(* What the verb helpers make of a response: C21, C22.                     *)
(***************************************************************************)
\* the call that has just returned was answered with a status in [200,300)
Answered2xx ==
    /\ called # "none"
    /\ response.kind = "http"
    /\ response.status >= 200
    /\ response.status < 300

\* C21: a PUT, DELETE or PATCH operation answered with a status in [200,300)
\* returns nil whatever the body of the response is: empty, JSON, or text that
\* is not JSON.
C21_NoDecodeOnWrite ==
    (called \in PipelineMethods /\ Answered2xx
        /\ request.method \in {"PUT", "DELETE", "PATCH"}) => err = <<>>

\* a replace answered with 200 and text that is not JSON
C21_Witness ==
    /\ called = "UpdateUser"
    /\ request.method = "PUT"
    /\ response = HTTPResponse(200, Body("OK", InvalidJSON))
    /\ err = <<>>

\* C22: a request sent through the pipeline carries the header Content-Type:
\* application/json exactly when it has a body; the POST, PUT and PATCH
\* requests have one, the GET and DELETE requests have neither.
C22_ContentTypeIffBody ==
    called \in PipelineMethods =>
        /\ request.sent
        /\ ("Content-Type" \in DOMAIN request.header) <=> (request.body # NoBody)
        /\ "Content-Type" \in DOMAIN request.header =>
              request.header["Content-Type"] = "application/json"
        /\ request.method \in {"POST", "PUT", "PATCH"} => request.body # NoBody
        /\ request.method \in {"GET", "DELETE"} => request.body = NoBody

\* a PATCH with nil ops: the body is null and the header is set
C22_Witness ==
    /\ called = "UpdateUserPermissions"
    /\ callArgs[2] = NilSlice
    /\ request.body = JNull
    /\ request.header["Content-Type"] = "application/json"

(***************************************************************************)
(* The five resource kinds: C23.                                           *)
(***************************************************************************)
\* the HTTP method of list, create, get, replace and delete
VerbOf(what) ==
    CASE what \in {"list", "get"} -> "GET"
      [] what = "create" -> "POST"
      [] what = "replace" -> "PUT"
      [] what = "delete" -> "DELETE"

\* /api/session/data/<dataSource>/<kind> with the data source encoded
CollectionPath(ds, kind) ==
    ApiSessionData \o PathEscape(ds) \o <<"/">> \o kind

\* C23: for each of the five resource kinds, list sends GET and create sends
\* POST to /api/session/data/<dataSource>/<kind>, and get, replace and delete
\* send GET, PUT and DELETE to that path followed by "/" and the encoded id
\* argument, whatever identifier the record of a replace holds.
C23_ResourcePaths ==
    \A m \in CrudMethods :
        called = m[1] =>
            /\ request.method = VerbOf(m[2])
            /\ request.path =
                  IF m[2] \in {"list", "create"}
                  THEN CollectionPath(dataSource, m[3])
                  ELSE CollectionPath(dataSource, m[3]) \o <<"/">>
                          \o PathEscape(callArgs[1])

(***************************************************************************)
(* What the public methods put around an error: C24.                       *)
(***************************************************************************)
\* the methods whose first argument is the identifier of their target
ByIdMethods ==
    {m[1] : m \in {x \in CrudMethods : x[2] \in {"get", "replace", "delete"}}}
        \cup PatchMethods

\* the outermost error of e is the fmt.Errorf of a public method: a wrap, and
\* not the one do puts around a transport failure, which names the HTTP method
\* and the path
NamesOperation(e) ==
    /\ e # <<>>
    /\ e[1].k = "wrap"
    /\ e[1].format # "guacamole: %s %s: %w"

\* C24: every error a public method returns, Authenticate and Logout included,
\* is a wrap that names the operation, with the identifier of the target for a
\* by-id operation, and the APIError of a response with a status outside
\* [200,300) is still found in its chain.
C24_ErrorsNameOperation ==
    (called # "none" /\ err # <<>>) =>
        /\ NamesOperation(err)
        /\ called \in ByIdMethods =>
              \E i \in DOMAIN err[1].args : err[1].args[i] = callArgs[1]
        /\ AnsweredNon2xx =>
              (As(err).found /\ As(err).apiErr.HTTPStatus = response.status)

(***************************************************************************)
(* The client after a call: C25.                                           *)
(***************************************************************************)
\* C25: no call changes the base URL, and no call other than an Authenticate
\* that returns nil changes the token or the data source; the request of a
\* call is built from the base URL and the token the client held before it,
\* whatever the earlier calls returned.
C25_ClientStaysUsable ==
    [][/\ baseURL' = baseURL
       /\ ~(called' = "Authenticate" /\ err' = <<>>) =>
             (authToken' = authToken /\ dataSource' = dataSource)
       /\ called' # "none" =>
             (request'.sent /\ request'.base = baseURL)
       /\ called' \in PipelineMethods =>
             CarriesToken(request', authToken)]_vars

\* a resource call that failed on a client that had logged in twice
C25_Witness ==
    /\ called = "DeleteConnection"
    /\ err # <<>>
    /\ prevLogin # NoLogin
    /\ authToken = "T2"
    /\ dataSource = Postgresql
    /\ request.base = baseURL
    /\ request.header["Guacamole-Token"] = "T2"

(***************************************************************************)
(* Success statuses and bodies: C26.                                       *)
(***************************************************************************)
\* the JSON value decodes into an AuthResponse: null, or an object whose
\* members of the names AuthResponse has are of the types its fields take
AuthBodyDecodes(json) ==
    \/ json.t = "null"
    \/ /\ json.t = "object"
       /\ \A k \in DOMAIN json.members \cap {"authToken", "username", "dataSource"} :
             json.members[k].t \in {"string", "null"}
       /\ "availableDataSources" \in DOMAIN json.members =>
             json.members["availableDataSources"].t \in {"array", "null"}

C27_AuthAcceptsEvery2xx ==
    (called = "Authenticate" /\ response.kind = "http") =>
        /\ (Answered2xx /\ AuthBodyDecodes(response.body.json)) =>
              /\ err = <<>>
              /\ authToken = StringMember(response.body.json, "authToken", "")
              /\ dataSource = StringMember(response.body.json, "dataSource", <<>>)
        /\ As(err).found => AnsweredNon2xx

(***************************************************************************)
(* One path segment per value: C28.                                        *)
(***************************************************************************)
\* C28: for every data source and every list of n segments, empty, "." and
\* ".." values included, dataPath returns /api/session/data/ followed by
\* exactly n+1 segments, the encoded data source and the encoded segments in
\* order; so the path of an identifier is below the path of its collection,
\* and an empty data source leaves an empty segment in its place.
C28_OneSegmentPerValue ==
    pathOut # <<>> =>
        pathOut = ApiSessionData \o
                     JoinSlash(<<PathEscape(pathDs)>> \o
                               [i \in DOMAIN pathSegs |-> PathEscape(pathSegs[i])])

(***************************************************************************)
(* What a login leaves in the client: C30.                                 *)
(***************************************************************************)
\* C30: once an Authenticate has returned nil the token and the data source
\* of the client are not empty, and every request of a resource method or of
\* Logout after it carries a Guacamole-Token header; a response whose body
\* has no authToken or no dataSource does not make Authenticate return nil.
C30_LoginStoresSession ==
    /\ lastLogin # NoLogin => (authToken # "" /\ dataSource # <<>>)
    /\ (lastLogin # NoLogin /\ called \in PipelineMethods) =>
          "Guacamole-Token" \in DOMAIN request.header
    /\ (called = "Authenticate" /\ err = <<>>) =>
          /\ StringMember(response.body.json, "authToken", "") # ""
          /\ StringMember(response.body.json, "dataSource", <<>>) # <<>>

(***************************************************************************)
(* Authenticate beside a resource call: C29.                               *)
(***************************************************************************)
\* the token a request carries, empty when it has no Guacamole-Token header
RequestToken(req) ==
    IF "Guacamole-Token" \in DOMAIN req.header
    THEN req.header["Guacamole-Token"]
    ELSE ""

\* token and data source of the initial client and of each response that
\* makes Authenticate return nil
LoginPairs ==
    {<<"", <<>>>>} \cup
    {<<StringMember(b.json, "authToken", ""), StringMember(b.json, "dataSource", <<>>)>> :
        b \in {x \in AuthBodies : AuthBodyDecodes(x.json)}}

\* C29 as claimed: the request of a resource call that runs beside an
\* Authenticate carries a token and is for a data source that come from one
\* authentication response, or both from the initial client.
C29_NoMixedSession ==
    resPc = "sent" => <<RequestToken(request), pathDs>> \in LoginPairs

\* C29, amended: that holds of a resource call when no Authenticate runs
\* between its call of dataPath and the building of its request.
C29_NoMixWithoutOverlap ==
    (resPc = "sent" /\ ~overlap) =>
        /\ request.path = pathOut
        /\ <<RequestToken(request), pathDs>> \in LoginPairs

\* a resource call made after the second of two logins has returned
C29_Witness ==
    /\ resPc = "sent"
    /\ ~overlap
    /\ authPc = "idle"
    /\ prevLogin # NoLogin
    /\ RequestToken(request) = "T2"
    /\ pathDs = Postgresql

====
